---- MODULE Spec2Model ----
(***************************************************************************)
(* Skeletal binding and deformation engine of CA_project:                  *)
(*   core/skeleton.py            Joint, Bone, Skeleton                     *)
(*   utils/math_utils.py         Vector3, Matrix4                          *)
(*   utils/geometry.py           point_to_segment_distance                 *)
(*   skinning/weight_calculator  WeightCalculatorV15                       *)
(*   skinning/deformer.py        SkinDeformer                              *)
(*                                                                         *)
(* Numbers.  Lengths are integers counting hundredths of a model unit, so  *)
(* the source's 0.25 is 25 and a squared length is in 1e-4 square units.   *)
(* Angles are integers counting quarter turns, so every rotation matrix is *)
(* an integer matrix.  A weight row is an exact fraction: a numerator per  *)
(* bone over one denominator for the row.  Floating-point rounding is not  *)
(* modelled.                                                               *)
(*                                                                         *)
(* References.  A Python reference to a Joint is the joint's position in   *)
(* Skeleton.joints (1-based), 0 standing for None.  An Optional[str] is a  *)
(* string, "" standing for None (both are falsy in the source's tests).    *)
(***************************************************************************)
EXTENDS Integers, Sequences, FiniteSets, TLC

VARIABLES
    pc,              \* position of the driving script: "loaded", "hierarchy", "ready", "weighted"
    joints,          \* Skeleton.joints
    bones,           \* Skeleton.bones
    root_joint,      \* Skeleton.root_joint
    deformer,        \* the SkinDeformer object, NoDeformer before construction
    update_runs,     \* history: SkinDeformer.update() calls since a global transform last changed
    mesh,            \* Mesh.vertices handed to compute_weights
    max_influences,  \* WeightCalculatorV15.max_influences
    weights,         \* the matrix returned by compute_weights, <<>> before the call
    args,            \* the arguments of a direct call of a helper function
    result,          \* what that call returned, <<>> before the call
    animator,        \* the Animator object: current_clip, current_time, is_playing, loop
    control_panel,   \* ControlPanel.current_joint and the three rotation sliders
    timer,           \* MainWindow.timer is running
    screen,          \* the vertices the last paintGL / render_frame drew, <<>> before it
    new_clip         \* the AnimationClip a script fills with add_keyframe

vars == <<pc, joints, bones, root_joint, deformer, update_runs,
          mesh, max_influences, weights, args, result,
          animator, control_panel, timer, screen, new_clip>>

skeletonVars == <<joints, bones, root_joint>>
deformVars   == <<deformer, update_runs>>
weightVars   == <<mesh, max_influences, weights>>
callVars     == <<args, result>>
uiVars       == <<animator, control_panel, timer, screen>>
clipVars     == <<new_clip>>

(***************************************************************************)
(* Bounds of the model.                                                    *)
(***************************************************************************)
MaxMeshVerts   == 2      \* vertices of the mesh given to compute_weights
MaxInfluences  == 3      \* largest max_influences the calculator is built with
MaxUpdateRuns  == 2      \* update() calls counted for one pose
MaxRegionMap   == 2      \* bones of a region map given to get_allowed_bones
MaxCoord       == 2      \* largest coordinate given to point_to_segment_distance
WeightParts    == 2      \* denominator of the weight rows given to the deformer

(***************************************************************************)
(* utils/math_utils.py : Vector3                                           *)
(***************************************************************************)
Vector3(x, y, z) == <<x, y, z>>

VecSub(a, b) == <<a[1] - b[1], a[2] - b[2], a[3] - b[3]>>

VecAdd(a, b) == <<a[1] + b[1], a[2] + b[2], a[3] + b[3]>>

VecScale(a, s) == <<a[1] * s, a[2] * s, a[3] * s>>

Dot(a, b) == a[1] * b[1] + a[2] * b[2] + a[3] * b[3]

(***************************************************************************)
(* utils/math_utils.py : Matrix4.  A matrix is a 4-tuple of rows.          *)
(***************************************************************************)
Identity4 ==
    << <<1, 0, 0, 0>>, <<0, 1, 0, 0>>, <<0, 0, 1, 0>>, <<0, 0, 0, 1>> >>

Translation(x, y, z) ==
    << <<1, 0, 0, x>>, <<0, 1, 0, y>>, <<0, 0, 1, z>>, <<0, 0, 0, 1>> >>

\* np.cos / np.sin of q quarter turns
Cos(q) == CASE q % 4 = 0 -> 1 [] q % 4 = 1 -> 0 [] q % 4 = 2 -> -1 [] OTHER -> 0

Sin(q) == CASE q % 4 = 0 -> 0 [] q % 4 = 1 -> 1 [] q % 4 = 2 -> 0 [] OTHER -> -1

rotation_x(q) ==
    << <<1, 0, 0, 0>>, <<0, Cos(q), -Sin(q), 0>>, <<0, Sin(q), Cos(q), 0>>, <<0, 0, 0, 1>> >>

rotation_y(q) ==
    << <<Cos(q), 0, Sin(q), 0>>, <<0, 1, 0, 0>>, <<-Sin(q), 0, Cos(q), 0>>, <<0, 0, 0, 1>> >>

rotation_z(q) ==
    << <<Cos(q), -Sin(q), 0, 0>>, <<Sin(q), Cos(q), 0, 0>>, <<0, 0, 1, 0>>, <<0, 0, 0, 1>> >>

\* entry (i, j) of np.dot(A, B)
MatMulEntry(A, B, i, j) ==
    A[i][1] * B[1][j] + A[i][2] * B[2][j] + A[i][3] * B[3][j] + A[i][4] * B[4][j]

MatMulRow(A, B, i) ==
    <<MatMulEntry(A, B, i, 1), MatMulEntry(A, B, i, 2),
      MatMulEntry(A, B, i, 3), MatMulEntry(A, B, i, 4)>>

\* Matrix4.__mul__
MatMul(A, B) == <<MatMulRow(A, B, 1), MatMulRow(A, B, 2), MatMulRow(A, B, 3), MatMulRow(A, B, 4)>>

from_euler(rx, ry, rz) == MatMul(MatMul(rotation_z(rz), rotation_y(ry)), rotation_x(rx))

\* the matrix applied to the homogeneous point (p, 1); the W component is dropped
TransformCoord(M, p, i) == M[i][1] * p[1] + M[i][2] * p[2] + M[i][3] * p[3] + M[i][4]

TransformPoint(M, p) == <<TransformCoord(M, p, 1), TransformCoord(M, p, 2), TransformCoord(M, p, 3)>>

Det3(M) ==
      M[1][1] * (M[2][2] * M[3][3] - M[2][3] * M[3][2])
    - M[1][2] * (M[2][1] * M[3][3] - M[2][3] * M[3][1])
    + M[1][3] * (M[2][1] * M[3][2] - M[2][2] * M[3][1])

\* entry (i, j) of the adjugate of the upper-left 3x3 block
Adj3(M, i, j) ==
    LET r1 == IF j = 1 THEN 2 ELSE 1
        r2 == IF j = 3 THEN 2 ELSE 3
        c1 == IF i = 1 THEN 2 ELSE 1
        c2 == IF i = 3 THEN 2 ELSE 3
        minor == M[r1][c1] * M[r2][c2] - M[r1][c2] * M[r2][c1]
    IN  IF (i + j) % 2 = 0 THEN minor ELSE -minor

\* np.linalg.inv of an affine matrix whose linear part has determinant 1 or -1
\* (every matrix the skeleton builds is one); a singular matrix raises
\* LinAlgError, which both callers answer with the identity.
InverseRow(M, d, i) ==
    LET a1 == Adj3(M, i, 1) * d
        a2 == Adj3(M, i, 2) * d
        a3 == Adj3(M, i, 3) * d
    IN  <<a1, a2, a3, -(a1 * M[1][4] + a2 * M[2][4] + a3 * M[3][4])>>

Inverse(M) ==
    LET d == Det3(M)
    IN  IF d = 0 THEN Identity4
        ELSE <<InverseRow(M, d, 1), InverseRow(M, d, 2), InverseRow(M, d, 3), <<0, 0, 0, 1>> >>

(***************************************************************************)
(* core/skeleton.py : Joint, Bone                                          *)
(***************************************************************************)
RECURSIVE MapTo(_, _)
\* the list <<F(1), ..., F(n)>>
MapTo(F(_), n) == IF n = 0 THEN <<>> ELSE Append(MapTo(F, n - 1), F(n))

Joint(name, index, head, parent) ==
    [name |-> name, index |-> index, head |-> head, parent_name |-> parent,
     parent |-> 0, children |-> <<>>,
     local_transform |-> Identity4, global_transform |-> Identity4,
     bind_matrix |-> Identity4, inverse_bind_matrix |-> Identity4,
     current_position |-> head]

Bone(js, start_joint, end_joint, index) ==
    [start_joint |-> start_joint, end_joint |-> end_joint, index |-> index,
     name |-> js[start_joint].name \o "_to_" \o js[end_joint].name]

\* Skeleton.joint_map.get(name): add_joint overwrites, so the last joint of that name
JointMapGet(js, name) ==
    LET hits == {i \in 1..Len(js) : js[i].name = name}
    IN  IF hits = {} THEN 0 ELSE CHOOSE i \in hits : \A k \in hits : k <= i

RECURSIVE PositionsWhere(_, _, _)
\* the positions i >= from of js with P[i], in list order
PositionsWhere(P, n, from) ==
    IF from > n THEN <<>>
    ELSE (IF P[from] THEN <<from>> ELSE <<>>) \o PositionsWhere(P, n, from + 1)

\* the linking loop of build_hierarchy (skeleton.py 73-81)
LinkJoints(js) ==
    LET n == Len(js)
        par == MapTo(LAMBDA i : IF js[i].parent_name # ""
                                THEN JointMapGet(js, js[i].parent_name) ELSE 0, n)
    IN  MapTo(LAMBDA i :
                [js[i] EXCEPT !.parent = par[i],
                              !.children = PositionsWhere(MapTo(LAMBDA k : par[k] = i, n), n, 1)],
              n)

FirstParentless(js) ==
    LET free == {i \in 1..Len(js) : js[i].parent_name = ""}
    IN  IF free = {} THEN 0 ELSE CHOOSE i \in free : \A k \in free : i <= k

RECURSIVE BindFrom(_, _)
RECURSIVE BindChildren(_, _, _)
\* _compute_bind_matrices(joint): the joint, then its children in order
BindFrom(js, j) ==
    LET J == js[j]
        bind == IF J.parent # 0
                THEN LET offset == VecSub(J.head, js[J.parent].head)
                     IN  MatMul(js[J.parent].bind_matrix,
                                Translation(offset[1], offset[2], offset[3]))
                ELSE Translation(J.head[1], J.head[2], J.head[3])
        js1 == [js EXCEPT ![j].bind_matrix = bind,
                          ![j].inverse_bind_matrix = Inverse(bind)]
    IN  BindChildren(js1, J.children, 1)

BindChildren(js, kids, k) ==
    IF k > Len(kids) THEN js ELSE BindChildren(BindFrom(js, kids[k]), kids, k + 1)

_compute_bind_matrices(js, root) == IF root = 0 THEN js ELSE BindFrom(js, root)

_init_transforms(js) ==
    MapTo(LAMBDA i : [js[i] EXCEPT !.global_transform = js[i].bind_matrix,
                                   !.current_position = js[i].head],
          Len(js))

build_hierarchy(js) == _init_transforms(_compute_bind_matrices(LinkJoints(js), FirstParentless(js)))

RECURSIVE BonesFrom(_, _, _)
\* build_bones: one bone per joint that has a parent, in joint-list order
BonesFrom(js, i, acc) ==
    IF i > Len(js) THEN acc
    ELSE IF js[i].parent # 0
         THEN BonesFrom(js, i + 1, Append(acc, Bone(js, js[i].parent, i, Len(acc))))
         ELSE BonesFrom(js, i + 1, acc)

build_bones(js) == BonesFrom(js, 1, <<>>)

\* the root's global transform with the factors in the other order
JointGlobalLocalFirst(js, j) ==
    LET J == js[j]
    IN  IF J.parent # 0
        THEN LET offset == VecSub(J.head, js[J.parent].head)
             IN  MatMul(MatMul(js[J.parent].global_transform,
                               Translation(offset[1], offset[2], offset[3])),
                        J.local_transform)
        ELSE MatMul(J.local_transform, Translation(J.head[1], J.head[2], J.head[3]))

\* the global transform update_global_transforms gives joint j (skeleton.py 142-152)
JointGlobal(js, j) ==
    LET J == js[j]
    IN  IF J.parent # 0
        THEN LET offset == VecSub(J.head, js[J.parent].head)
             IN  MatMul(MatMul(js[J.parent].global_transform,
                               Translation(offset[1], offset[2], offset[3])),
                        J.local_transform)
        ELSE MatMul(Translation(J.head[1], J.head[2], J.head[3]), J.local_transform)

RECURSIVE GlobalFrom(_, _)
RECURSIVE GlobalChildren(_, _, _)
\* update_global_transforms(joint): pre-order walk, parent before children
GlobalFrom(js, j) ==
    LET J == js[j]
        g == JointGlobal(js, j)
        js1 == [js EXCEPT ![j].global_transform = g,
                          ![j].current_position = <<g[1][4], g[2][4], g[3][4]>>]
    IN  GlobalChildren(js1, J.children, 1)

GlobalChildren(js, kids, k) ==
    IF k > Len(kids) THEN js ELSE GlobalChildren(GlobalFrom(js, kids[k]), kids, k + 1)

RECURSIVE GlobalInListOrder(_, _)
\* the global transforms written joint by joint in the order of the joint list
GlobalInListOrder(js, i) ==
    IF i > Len(js) THEN js
    ELSE LET g == JointGlobal(js, i)
         IN  GlobalInListOrder([js EXCEPT ![i].global_transform = g,
                                          ![i].current_position = <<g[1][4], g[2][4], g[3][4]>>],
                               i + 1)

\* update_global_transforms that walks the joint list instead of the tree
update_global_transforms_list_order(js, root) ==
    IF root = 0 THEN js ELSE GlobalInListOrder(js, 1)

update_global_transforms(js, root) == IF root = 0 THEN js ELSE GlobalFrom(js, root)


(***************************************************************************)
(* Exact fractions.  A point of the deformed buffer is a numerator vector  *)
(* over a positive denominator, kept in lowest terms so that equal points  *)
(* are equal values.                                                       *)
(***************************************************************************)
Abs(x) == IF x < 0 THEN -x ELSE x

RECURSIVE Gcd(_, _)
Gcd(a, b) == IF b = 0 THEN a ELSE Gcd(b, a % b)

Point(num, den) ==
    LET g == Gcd(Gcd(Gcd(Abs(num[1]), Abs(num[2])), Abs(num[3])), den)
    IN  [num |-> <<num[1] \div g, num[2] \div g, num[3] \div g>>, den |-> den \div g]

RECURSIVE SumTo(_, _)
\* f[1] + ... + f[n]
SumTo(f, n) == IF n = 0 THEN 0 ELSE f[n] + SumTo(f, n - 1)

RECURSIVE VecSumTo(_, _)
VecSumTo(f, n) == IF n = 0 THEN <<0, 0, 0>> ELSE VecAdd(f[n], VecSumTo(f, n - 1))

(***************************************************************************)
(* skinning/deformer.py : SkinDeformer                                     *)
(***************************************************************************)
NoDeformer ==
    [constructed |-> FALSE, bind_vertices |-> <<>>, weights |-> <<>>,
     bind_inverse |-> <<>>, deformed_vertices |-> <<>>]

\* the bind matrices taken as they are, not inverted
_compute_bind_inverse_uninverted(js) == MapTo(LAMBDA i : js[i].bind_matrix, Len(js))

\* _compute_bind_inverse: one inverse per joint, stored at the joint's list position
_compute_bind_inverse(js) == MapTo(LAMBDA i : Inverse(js[i].bind_matrix), Len(js))

\* SkinDeformer.__init__
SkinDeformer(verts, js, W) ==
    [constructed |-> TRUE, bind_vertices |-> verts, weights |-> W,
     bind_inverse |-> _compute_bind_inverse(js),
     deformed_vertices |-> MapTo(LAMBDA v : Point(verts[v], 1), Len(verts))]

\* _get_current_global_matrices: G[i] is the global transform of the i-th joint of the list
_get_current_global_matrices(js) == MapTo(LAMBDA i : js[i].global_transform, Len(js))

\* the matrix T of the loop body of update() for one bone:
\* joint_idx = bone.end_joint.index, T = G_current[joint_idx] @ bind_inverse[joint_idx]
SkinningMatrix(d, G_current, js, bone) ==
    LET joint_idx == js[bone.end_joint].index
    IN  MatMul(G_current[joint_idx + 1], d.bind_inverse[joint_idx + 1])

\* the sum over the bones of w[v, bone] * (T_bone applied to the bind vertex v)
BlendedVertex(d, G_current, js, bs, v) ==
    LET term == MapTo(LAMBDA b :
                        VecScale(TransformPoint(SkinningMatrix(d, G_current, js, bs[b]),
                                                d.bind_vertices[v]),
                                 d.weights[v].num[b]),
                      Len(bs))
    IN  VecSumTo(term, Len(bs))

\* update() adding onto the buffer of the previous call instead of onto zeros
update_accumulating(d, js, bs) ==
    LET G_current == _get_current_global_matrices(js)
    IN  MapTo(LAMBDA v :
                LET old == d.deformed_vertices[v]
                    den == d.weights[v].den
                IN  Point(VecAdd(VecScale(BlendedVertex(d, G_current, js, bs, v), old.den),
                                 VecScale(old.num, den)),
                          den * old.den),
              Len(d.bind_vertices))

\* update(): result = sum over bones of w * (T v), then the xyz part
update(d, js, bs) ==
    LET G_current == _get_current_global_matrices(js)
    IN  MapTo(LAMBDA v : Point(BlendedVertex(d, G_current, js, bs, v), d.weights[v].den),
              Len(d.bind_vertices))

\* AnimationClip.__init__: a name, a duration and no keyframes; the keyframes dict
\* is the list of its entries [joint_name, frames] in insertion order
AnimationClip(name, duration) == [name |-> name, duration |-> duration, keyframes |-> <<>>]

\* no clip is being filled
NoClip == AnimationClip("", 0)

(***************************************************************************)
(* The animator and the control panel before the window builds them.       *)
(***************************************************************************)
\* Animator.__init__: no clip (0 stands for None), time 0, stopped, looping
NoAnimator == [current_clip |-> 0, current_time |-> 0, is_playing |-> FALSE, loop |-> TRUE]

\* ControlPanel.__init__: no joint selected, the sliders at 0
NoControlPanel == [current_joint |-> 0, slider_rx |-> 0, slider_ry |-> 0, slider_rz |-> 0]

(***************************************************************************)
(* Inputs of the skeleton-and-deformer runs.                               *)
(***************************************************************************)
\* a chain with the root at the origin
ChainJoints ==
    << Joint("rigRoot", 0, <<0, 0, 0>>, ""),
       Joint("rigSpine1", 1, <<0, 2, 0>>, "rigRoot"),
       Joint("rigChest", 2, <<0, 4, 1>>, "rigSpine1") >>

\* a branching root away from the origin; a child is listed before its parent
\* and the index fields are not the list positions
BranchJoints ==
    << Joint("rigTail1", 2, <<1, -2, 2>>, "rigRoot"),
       Joint("rigRoot", 0, <<1, 0, 2>>, ""),
       Joint("rigNeck1", 1, <<1, 3, 3>>, "rigRoot") >>

\* two joints without a parent
TwoRootJoints ==
    << Joint("rigRoot", 0, <<0, 0, 0>>, ""),
       Joint("rigProp", 1, <<3, 0, 0>>, ""),
       Joint("rigPropTip", 2, <<3, 0, 2>>, "rigProp") >>

\* a parent name that no joint carries
UnknownParentJoints ==
    << Joint("rigRoot", 0, <<0, 0, 0>>, ""),
       Joint("rigEar", 1, <<1, 2, 3>>, "rigSkull"),
       Joint("rigEarTip", 2, <<1, 2, 5>>, "rigEar") >>

DeformSkeletons == {ChainJoints, BranchJoints, TwoRootJoints, UnknownParentJoints}

\* the bind vertices of the meshes given to the deformer
DeformMeshes == { << <<1, 0, 0>> >>, << <<0, 2, 1>>, <<2, 3, 1>> >> }

\* Euler triples (quarter turns) the pose handlers are called with
PoseAngles == {<<1, 0, 0>>, <<0, 0, 1>>}

\* the weight rows over nb bones whose numerators sum to the denominator
UnitRows(nb) ==
    {[num |-> f, den |-> WeightParts] :
        f \in {g \in [1..nb -> 0..WeightParts] : SumTo(g, nb) = WeightParts}}

(***************************************************************************)
(* Operations.                                                             *)
(***************************************************************************)
\* SkeletonLoader.load: skeleton.build_hierarchy()
BuildHierarchy ==
    /\ pc = "loaded"
    /\ joints' = build_hierarchy(joints)
    /\ root_joint' = FirstParentless(joints)
    /\ pc' = "hierarchy"
    /\ UNCHANGED <<bones, deformVars, weightVars, callVars, uiVars, clipVars>>

\* SkeletonLoader.load: skeleton.build_bones()
BuildBones ==
    /\ pc = "hierarchy"
    /\ bones' = build_bones(joints)
    /\ pc' = "ready"
    /\ UNCHANGED <<joints, root_joint, deformVars, weightVars, callVars, uiVars, clipVars>>

\* SkinDeformer(mesh, skeleton, weights)
NewDeformer ==
    /\ pc = "ready"
    /\ ~deformer.constructed
    /\ \E verts \in DeformMeshes :
         \E W \in [1..Len(verts) -> UnitRows(Len(bones))] :
            deformer' = SkinDeformer(verts, joints, MapTo(LAMBDA v : W[v], Len(verts)))
    /\ UNCHANGED <<pc, skeletonVars, update_runs, weightVars, callVars, uiVars, clipVars>>

\* the update() count survives an operation only if it left every global transform alone
RunsAfter(js) ==
    IF _get_current_global_matrices(js) = _get_current_global_matrices(joints)
    THEN update_runs ELSE 0

\* joint.local_transform = Matrix4.from_euler(...); skeleton.update_global_transforms()
SetJointPose ==
    /\ pc = "ready"
    /\ \E j \in 1..Len(joints), e \in PoseAngles :
         LET js == update_global_transforms(
                      [joints EXCEPT ![j].local_transform = from_euler(e[1], e[2], e[3])],
                      root_joint)
         IN  joints' = js /\ update_runs' = RunsAfter(js)
    /\ UNCHANGED <<pc, bones, root_joint, deformer, weightVars, callVars, uiVars, clipVars>>

\* every joint.local_transform = Matrix4.identity(); skeleton.update_global_transforms()
ResetPose ==
    /\ pc = "ready"
    /\ LET js == update_global_transforms(
                    MapTo(LAMBDA i : [joints[i] EXCEPT !.local_transform = Identity4], Len(joints)),
                    root_joint)
       IN  joints' = js /\ update_runs' = RunsAfter(js)
    /\ UNCHANGED <<pc, bones, root_joint, deformer, weightVars, callVars, uiVars, clipVars>>

\* skeleton.update_global_transforms()
UpdateGlobalTransforms ==
    /\ pc = "ready"
    /\ LET js == update_global_transforms(joints, root_joint)
       IN  joints' = js /\ update_runs' = RunsAfter(js)
    /\ UNCHANGED <<pc, bones, root_joint, deformer, weightVars, callVars, uiVars, clipVars>>

\* deformer.update() that also rebinds: it stores the inverses of the present global
\* transforms as the bind inverses
DeformerUpdateRebinding ==
    /\ pc = "ready"
    /\ deformer.constructed
    /\ update_runs < MaxUpdateRuns
    /\ deformer' = [deformer EXCEPT
                       !.deformed_vertices = update(deformer, joints, bones),
                       !.bind_inverse = MapTo(LAMBDA i : Inverse(joints[i].global_transform),
                                              Len(joints))]
    /\ update_runs' = update_runs + 1
    /\ UNCHANGED <<pc, skeletonVars, weightVars, callVars, uiVars, clipVars>>

\* deformer.update()
DeformerUpdate ==
    /\ pc = "ready"
    /\ deformer.constructed
    /\ update_runs < MaxUpdateRuns
    /\ deformer' = [deformer EXCEPT !.deformed_vertices = update(deformer, joints, bones)]
    /\ update_runs' = update_runs + 1
    /\ UNCHANGED <<pc, skeletonVars, weightVars, callVars, uiVars, clipVars>>

Init ==
    /\ pc = "loaded"
    /\ joints \in DeformSkeletons
    /\ bones = <<>>
    /\ root_joint = 0
    /\ deformer = NoDeformer
    /\ update_runs = 0
    /\ mesh = <<>>
    /\ max_influences = 4
    /\ weights = <<>>
    /\ args = <<>>
    /\ result = <<>>
    /\ animator = NoAnimator
    /\ control_panel = NoControlPanel
    /\ timer = FALSE
    /\ screen = <<>>
    /\ new_clip = NoClip

Next ==
    \/ BuildHierarchy
    \/ BuildBones
    \/ NewDeformer
    \/ SetJointPose
    \/ ResetPose
    \/ UpdateGlobalTransforms
    \/ DeformerUpdate

Spec == Init /\ [][Next]_vars

(***************************************************************************)
(* Properties of the skeleton and the deformer.                            *)
(***************************************************************************)
Built == pc \in {"hierarchy", "ready"}

AllLocalIdentity == \A i \in 1..Len(joints) : joints[i].local_transform = Identity4

\* the buffer was written by an update() that read the present global transforms
BufferCurrent == deformer.constructed /\ update_runs >= 1

Rotations == {from_euler(e[1], e[2], e[3]) : e \in PoseAngles}

OnlyRootRotated ==
    /\ root_joint # 0
    /\ joints[root_joint].local_transform \in Rotations
    /\ \A i \in 1..Len(joints) : i # root_joint => joints[i].local_transform = Identity4

RECURSIVE UnderRoot(_, _)
\* joint j is the root or descends from it (fuel bounds the walk up the parents)
UnderRoot(j, fuel) ==
    \/ j = root_joint
    \/ fuel > 0 /\ joints[j].parent # 0 /\ UnderRoot(joints[j].parent, fuel - 1)

\* every bone that carries weight for vertex v has update() read a joint under the root
MovedByRoot(v) ==
    \A b \in 1..Len(bones) :
        deformer.weights[v].num[b] # 0 =>
            UnderRoot(joints[bones[b].end_joint].index + 1, Len(joints))

\* C3: with every local transform the identity, update() leaves each vertex at
\* its bind position, before and after update_global_transforms() has run.
C3_BindPoseIdentity ==
    (BufferCurrent /\ AllLocalIdentity) =>
        \A v \in 1..Len(deformer.bind_vertices) :
            deformer.deformed_vertices[v] = Point(deformer.bind_vertices[v], 1)

C3_Witness ==
    /\ BufferCurrent
    /\ AllLocalIdentity
    /\ joints[1].name = "rigTail1"
    /\ \E v \in 1..Len(deformer.bind_vertices) :
         \A b \in 1..Len(bones) : deformer.weights[v].num[b] # 0

\* C4 as stated, for the vertices whose bones all hang from the root: with only
\* the root rotated by R, the deformed vertex is R applied to its bind position.
C4_RotatedAboutOrigin ==
    (BufferCurrent /\ OnlyRootRotated) =>
        \A v \in 1..Len(deformer.bind_vertices) :
            MovedByRoot(v) =>
                deformer.deformed_vertices[v] =
                    Point(TransformPoint(joints[root_joint].local_transform,
                                         deformer.bind_vertices[v]), 1)

\* where bone b takes the bind position p when only the root, at h, is rotated by R:
\* h + R (p - h) if update() reads for b a joint under the root, else p itself
RigidTarget(b, p) ==
    LET h == joints[root_joint].head
        R == joints[root_joint].local_transform
    IN  IF UnderRoot(joints[bones[b].end_joint].index + 1, Len(joints))
        THEN VecAdd(h, TransformPoint(R, VecSub(p, h)))
        ELSE p

\* C4 amended: with only the root rotated by R, every deformed vertex is the
\* weighted blend of its bones' targets: the bind position turned by R about the
\* root's head h, h + R (v - h), for a bone under the root, and the bind position
\* itself for a bone outside the root's tree.  A vertex moved only by bones
\* under the root is therefore turned rigidly about the root's head.
C4_RigidAboutRootHead ==
    (BufferCurrent /\ OnlyRootRotated) =>
        \A v \in 1..Len(deformer.bind_vertices) :
            LET p == deformer.bind_vertices[v]
                row == deformer.weights[v]
                term == MapTo(LAMBDA b : VecScale(RigidTarget(b, p), row.num[b]), Len(bones))
            IN  deformer.deformed_vertices[v] = Point(VecSumTo(term, Len(bones)), row.den)

C4_Witness ==
    /\ BufferCurrent
    /\ OnlyRootRotated
    /\ joints[root_joint].head # <<0, 0, 0>>
    /\ \E v \in 1..Len(deformer.bind_vertices) :
         /\ MovedByRoot(v)
         /\ deformer.deformed_vertices[v] # Point(deformer.bind_vertices[v], 1)

\* C5: build_hierarchy() does not complete on a joint list that has more than
\* one joint without a parent.
C5_SecondRootRejected ==
    Built => Cardinality({i \in 1..Len(joints) : joints[i].parent_name = ""}) <= 1

\* C6: build_hierarchy() does not complete with a joint whose parent name
\* resolves to no joint, left without parent and without root status.
C6_UnknownParentRejected ==
    Built => \A i \in 1..Len(joints) :
                joints[i].parent_name # "" => joints[i].parent # 0

\* C10: a repeated update() with no global transform changed since the last
\* one leaves the deformed-vertex buffer as it is.
C10_UpdateIdempotent ==
    [][(DeformerUpdate /\ update_runs >= 1) =>
            deformer'.deformed_vertices = deformer.deformed_vertices]_vars

C10_Witness ==
    /\ update_runs = MaxUpdateRuns
    /\ ~AllLocalIdentity
    /\ \E v \in 1..Len(deformer.bind_vertices) :
         deformer.deformed_vertices[v] # Point(deformer.bind_vertices[v], 1)

(***************************************************************************)
(* skinning/weight_calculator.py : bone names and regions                  *)
(***************************************************************************)
\* one character of str.lower()
LowerChar(c) ==
    CASE c = "A" -> "a" [] c = "B" -> "b" [] c = "C" -> "c" [] c = "D" -> "d"
      [] c = "E" -> "e" [] c = "F" -> "f" [] c = "G" -> "g" [] c = "H" -> "h"
      [] c = "I" -> "i" [] c = "J" -> "j" [] c = "K" -> "k" [] c = "L" -> "l"
      [] c = "M" -> "m" [] c = "N" -> "n" [] c = "O" -> "o" [] c = "P" -> "p"
      [] c = "Q" -> "q" [] c = "R" -> "r" [] c = "S" -> "s" [] c = "T" -> "t"
      [] c = "U" -> "u" [] c = "V" -> "v" [] c = "W" -> "w" [] c = "X" -> "x"
      [] c = "Y" -> "y" [] c = "Z" -> "z" [] OTHER -> c

RECURSIVE Lower(_)
\* str.lower()
Lower(s) ==
    IF Len(s) = 0 THEN ""
    ELSE LowerChar(SubSeq(s, 1, 1)) \o Lower(SubSeq(s, 2, Len(s)))

RECURSIVE Remove(_, _)
\* str.replace(pat, ''): occurrences are taken from the left and do not overlap
Remove(s, pat) ==
    IF Len(s) < Len(pat) THEN s
    ELSE IF SubSeq(s, 1, Len(pat)) = pat
         THEN Remove(SubSeq(s, Len(pat) + 1, Len(s)), pat)
         ELSE SubSeq(s, 1, 1) \o Remove(SubSeq(s, 2, Len(s)), pat)

\* pat in s
Contains(s, pat) ==
    \E i \in 1..(Len(s) - Len(pat) + 1) : SubSeq(s, i, i + Len(pat) - 1) = pat

\* WeightCalculatorV15.region_keywords
region_keywords(region) ==
    CASE region = "head"        -> <<"righead", "rigjaw", "rigtongue", "rigeyelid", "rigear">>
      [] region = "neck"        -> <<"rigneck">>
      [] region = "spine"       -> <<"rigroot", "rigpelvis", "rigspine", "rigchest">>
      [] region = "tail"        -> <<"rigtail">>
      [] region = "back_leg_L"  -> <<"riglbleg">>
      [] region = "back_leg_R"  -> <<"rigrbleg">>
      [] region = "front_leg_L" -> <<"riglfleg", "riglflegcollarbone">>
      [] region = "front_leg_R" -> <<"rigrfleg", "rigrflegcollarbone">>
      [] region = "ankle_BL"    -> <<"riglblegankle">>
      [] region = "ankle_BR"    -> <<"rigrblegankle">>
      [] region = "ankle_FL"    -> <<"riglflegankle">>
      [] region = "ankle_FR"    -> <<"rigrflegankle">>
      [] OTHER                  -> <<>>

\* the priority list of _classify_bones
priority ==
    << "ankle_BL", "ankle_BR", "ankle_FL", "ankle_FR", "head", "neck", "tail",
       "back_leg_L", "back_leg_R", "front_leg_L", "front_leg_R", "spine" >>

\* the name _classify_bones matches keywords against
NormalisedName(name) == Remove(Remove(Remove(Lower(name), "_"), "-"), "to")

RECURSIVE AssignRegion(_, _)
\* the priority loop of _classify_bones from position k on: the first region with
\* a keyword in the name, 'spine' when the loop runs out
AssignRegion(bone_name, k) ==
    IF k > Len(priority) THEN "spine"
    ELSE LET kw == region_keywords(priority[k])
         IN  IF \E i \in 1..Len(kw) : Contains(bone_name, kw[i])
             THEN priority[k]
             ELSE AssignRegion(bone_name, k + 1)

\* _classify_bones: bone_regions as the list of regions in bone order
_classify_bones(bs) ==
    MapTo(LAMBDA b : AssignRegion(NormalisedName(bs[b].name), 1), Len(bs))

\* the positions b of bs whose region is in the set regions, in bone order
BonesIn(bone_regions, regions) ==
    PositionsWhere(MapTo(LAMBDA b : bone_regions[b] \in regions, Len(bone_regions)),
                   Len(bone_regions), 1)

Range(s) == {s[i] : i \in 1..Len(s)}

\* _build_head_bone_chain
_build_head_bone_chain(bone_regions) == Range(BonesIn(bone_regions, {"head", "neck"}))

\* _get_excluded_bones that excludes the leg and ankle bones only
_get_excluded_bones_legs_only(bone_regions) ==
    Range(BonesIn(bone_regions,
                  {"front_leg_L", "front_leg_R", "ankle_FL", "ankle_FR",
                   "back_leg_L", "back_leg_R", "ankle_BL", "ankle_BR"}))

\* _get_excluded_bones
_get_excluded_bones(bone_regions) ==
    Range(BonesIn(bone_regions,
                  {"front_leg_L", "front_leg_R", "ankle_FL", "ankle_FR",
                   "back_leg_L", "back_leg_R", "ankle_BL", "ankle_BR", "spine", "tail"}))

\* the groups table of _get_allowed_bones; groups.get(region, {region, 'spine'})
groups(region) ==
    CASE region = "head"        -> {"head", "neck"}
      [] region = "neck"        -> {"head", "neck", "spine"}
      [] region = "spine"       -> {"spine", "neck"}
      [] region = "tail"        -> {"tail", "spine"}
      [] region = "front_leg_L" -> {"front_leg_L", "spine"}
      [] region = "front_leg_R" -> {"front_leg_R", "spine"}
      [] region = "back_leg_L"  -> {"back_leg_L", "spine"}
      [] region = "back_leg_R"  -> {"back_leg_R", "spine"}
      [] region = "ankle_BL"    -> {"ankle_BL", "back_leg_L"}
      [] region = "ankle_BR"    -> {"ankle_BR", "back_leg_R"}
      [] region = "ankle_FL"    -> {"ankle_FL", "front_leg_L"}
      [] region = "ankle_FR"    -> {"ankle_FR", "front_leg_R"}
      [] OTHER                  -> {region, "spine"}

\* _get_allowed_bones without the fallback to [nearest]
_get_allowed_bones_no_fallback(region, bone_regions, nearest) ==
    BonesIn(bone_regions, groups(region))

\* _get_allowed_bones with every bone allowed
_get_allowed_bones_any_region(region, bone_regions, nearest) ==
    MapTo(LAMBDA b : b, Len(bone_regions))

\* _get_allowed_bones: the bones of the regions grouped with region, in bone order
_get_allowed_bones(region, bone_regions, nearest) ==
    LET found == BonesIn(bone_regions, groups(region))
    IN  IF found # <<>> THEN found ELSE <<nearest>>

(***************************************************************************)
(* utils/geometry.py and the inverse-distance weights.                     *)
(*                                                                         *)
(* A distance is carried as its square, an exact fraction                  *)
(* whole + part/of in 1e-4 square units: the source takes the square root, *)
(* which keeps the order, and only compares distances and divides them.    *)
(* A raw weight 1/(ratio^e + 0.01) is carried in units of 100/WeightScale, *)
(* rounded down but never to zero (a float32 weight does not underflow in  *)
(* the coordinate range of the inputs).                                    *)
(***************************************************************************)
WeightScale == 1000000

\* the fraction a/b, b > 0, as whole + part/of
Dist(a, b) ==
    LET r == a % b
        g == Gcd(r, b)
    IN  [whole |-> a \div b, part |-> r \div g, of |-> b \div g]

\* Vector3.distance(p, q), squared
Distance2(p, q) == Dot(VecSub(p, q), VecSub(p, q))

\* the distance to the line through the segment, squared: t is not clamped
point_to_line_distance(point, seg_start, seg_end) ==
    LET ab == VecSub(seg_end, seg_start)
        ap == VecSub(point, seg_start)
        ab_squared == Dot(ab, ab)
    IN  IF ab_squared = 0 THEN Dist(Distance2(point, seg_start), 1)
        ELSE Dist(Dot(ap, ap) * ab_squared - Dot(ap, ab) * Dot(ap, ab), ab_squared)

\* point_to_segment_distance, squared.  ab_squared < 1e-10 is ab_squared = 0 on
\* integer coordinates; t = dot(ap, ab) / ab_squared is clamped to [0, 1]
point_to_segment_distance(point, seg_start, seg_end) ==
    LET ab == VecSub(seg_end, seg_start)
        ap == VecSub(point, seg_start)
        ab_squared == Dot(ab, ab)
    IN  IF ab_squared = 0 THEN Dist(Distance2(point, seg_start), 1)
        ELSE IF Dot(ap, ab) <= 0 THEN Dist(Distance2(point, seg_start), 1)
        ELSE IF Dot(ap, ab) >= ab_squared THEN Dist(Distance2(point, seg_end), 1)
        ELSE Dist(Dot(ap, ap) * ab_squared - Dot(ap, ab) * Dot(ap, ab), ab_squared)

\* d1 < d2
DistLess(d1, d2) ==
    \/ d1.whole < d2.whole
    \/ d1.whole = d2.whole /\ d1.part * d2.of < d2.part * d1.of

\* the squared distance in 1e-6 square units, rounded down: 0.001 squared is 1
Micro(d) == 100 * d.whole + (100 * d.part) \div d.of

RECURSIVE ISqrtIn(_, _, _)
\* the largest s in lo..hi with s * s <= n
ISqrtIn(n, lo, hi) ==
    IF lo = hi THEN lo
    ELSE LET mid == (lo + hi + 1) \div 2
         IN  IF mid * mid <= n THEN ISqrtIn(n, mid, hi) ELSE ISqrtIn(n, lo, mid - 1)

\* floor of the square root, for n < 2^31
ISqrt(n) == ISqrtIn(n, 0, 46340)

\* (bone_idx, dist) of the bone at position b for a vertex
BoneDistance(js, bs, vertex, b) ==
    [bone |-> b,
     dist |-> point_to_segment_distance(vertex, js[bs[b].start_joint].head,
                                        js[bs[b].end_joint].head)]

\* the list of (bone_idx, dist) over the bone positions in cand, in that order
Distances(js, bs, vertex, cand) ==
    MapTo(LAMBDA k : BoneDistance(js, bs, vertex, cand[k]), Len(cand))

RECURSIVE InsertByDist(_, _)
\* e put into the sorted list s after every entry that is not farther
InsertByDist(s, e) ==
    IF s = <<>> THEN <<e>>
    ELSE IF DistLess(e.dist, s[Len(s)].dist)
         THEN Append(InsertByDist(SubSeq(s, 1, Len(s) - 1), e), s[Len(s)])
         ELSE Append(s, e)

RECURSIVE SortByDist(_, _)
\* distances.sort(key=lambda x: x[1]): stable, equal distances keep their order
SortByDist(distances, n) ==
    IF n = 0 THEN <<>> ELSE InsertByDist(SortByDist(distances, n - 1), distances[n])

\* top_bones with the slice [:max_influences] left out
TopBonesUncut(distances, k) == SortByDist(distances, Len(distances))

\* distances.sort(...); top_bones = distances[:max_influences]
TopBones(distances, k) ==
    LET sorted == SortByDist(distances, Len(distances))
    IN  SubSeq(sorted, 1, IF k < Len(sorted) THEN k ELSE Len(sorted))

\* 100 * (dist / min_d) ** 2 , min_d = max(top_bones[0][1], 0.001)
Ratio100(dist, min_dist) ==
    LET m == Micro(min_dist)
    IN  (100 * Micro(dist)) \div (IF m > 1 THEN m ELSE 1)

\* w = 1.0 / ((dist / min_d) ** 2 + 0.01)
RawWeight2(dist, min_dist) ==
    LET w == WeightScale \div (Ratio100(dist, min_dist) + 1)
    IN  IF w > 1 THEN w ELSE 1

\* w = 1.0 / ((dist / min_d) ** 1.5 + 0.01)
RawWeight15(dist, min_dist) ==
    LET r10 == ISqrt(Ratio100(dist, min_dist))
        w == WeightScale \div (r10 * ISqrt(10 * r10) + 1)
    IN  IF w > 1 THEN w ELSE 1

(***************************************************************************)
(* skinning/weight_calculator.py : key bones, zones and the four tiers     *)
(***************************************************************************)
\* s.startswith(pat)
StartsWith(s, pat) == Len(s) >= Len(pat) /\ SubSeq(s, 1, Len(pat)) = pat

RECURSIVE RecordAnkles(_, _, _, _, _)
\* key_bones['ankles'] after the loop of _get_key_bones over the bones from b on: a
\* dict keeps a key where it was first inserted and the value last assigned to it
RecordAnkles(js, bs, bone_regions, b, acc) ==
    IF b > Len(bs) THEN acc
    ELSE LET region == bone_regions[b]
             entry == [region |-> region, bone |-> b, pos |-> js[bs[b].end_joint].head]
             at == {k \in 1..Len(acc) : acc[k].region = region}
         IN  IF ~StartsWith(region, "ankle_")
             THEN RecordAnkles(js, bs, bone_regions, b + 1, acc)
             ELSE IF at = {}
                  THEN RecordAnkles(js, bs, bone_regions, b + 1, Append(acc, entry))
                  ELSE RecordAnkles(js, bs, bone_regions, b + 1,
                                    [acc EXCEPT ![CHOOSE k \in at : TRUE] = entry])

\* _get_key_bones: bone positions, 0 for a None index and <<>> for a None position
_get_key_bones(js, bs, bone_regions) ==
    LET heads == {b \in 1..Len(bs) :
                    /\ bone_regions[b] = "head"
                    /\ Contains(Lower(bs[b].name), "righead")
                    /\ Contains(Lower(js[bs[b].end_joint].name), "righead")}
        chests == {b \in 1..Len(bs) : Contains(Lower(bs[b].name), "chest")}
        head_idx == IF heads = {} THEN 0 ELSE CHOOSE b \in heads : \A c \in heads : b <= c
        chest_idx == IF chests = {} THEN 0 ELSE CHOOSE b \in chests : \A c \in chests : b <= c
    IN  [head_idx  |-> head_idx,
         head_pos  |-> IF head_idx = 0 THEN <<>> ELSE js[bs[head_idx].end_joint].head,
         ankles    |-> RecordAnkles(js, bs, bone_regions, 1, <<>>),
         chest_idx |-> chest_idx,
         chest_pos |-> IF chest_idx = 0 THEN <<>> ELSE js[bs[chest_idx].start_joint].head]

RECURSIVE MinOver(_, _)
RECURSIVE MaxOver(_, _)
MinOver(f, n) == IF n = 1 THEN f[1] ELSE LET m == MinOver(f, n - 1) IN IF f[n] < m THEN f[n] ELSE m
MaxOver(f, n) == IF n = 1 THEN f[1] ELSE LET m == MaxOver(f, n - 1) IN IF f[n] > m THEN f[n] ELSE m

\* the extent of the vertices along axis c
Extent(verts, c) ==
    LET xs == MapTo(LAMBDA i : verts[i][c], Len(verts))
    IN  MaxOver(xs, Len(verts)) - MinOver(xs, Len(verts))

\* Mesh.get_bounding_box and the model_info dict of compute_weights
ModelInfo(verts) ==
    IF verts = <<>> THEN [height |-> 0, width |-> 0, length |-> 0]
    ELSE [height |-> Extent(verts, 3), width |-> Extent(verts, 1), length |-> Extent(verts, 2)]

\* _compute_head_bounds: the least y and z over the joints of the head and neck
\* bones; none is float('inf') when there is no such bone
_compute_head_bounds(js, bs, bone_regions, model_info) ==
    LET hb == BonesIn(bone_regions, {"head", "neck"})
        ends(c) == MapTo(LAMBDA k : IF k % 2 = 1
                                    THEN js[bs[hb[(k + 1) \div 2]].start_joint].head[c]
                                    ELSE js[bs[hb[k \div 2]].end_joint].head[c],
                         2 * Len(hb))
    IN  IF hb = <<>> THEN [none |-> TRUE, head_min_y |-> 0, head_min_z |-> 0,
                           length |-> model_info.length, height |-> model_info.height]
        ELSE [none |-> FALSE,
              head_min_y |-> MinOver(ends(2), 2 * Len(hb)),
              head_min_z |-> MinOver(ends(3), 2 * Len(hb)),
              length |-> model_info.length, height |-> model_info.height]

\* _is_in_head_region: min_y = head_min_y - length * 0.05, min_z = head_min_z - height * 0.05
_is_in_head_region(vertex, head_bounds) ==
    /\ ~head_bounds.none
    /\ ~(20 * vertex[2] < 20 * head_bounds.head_min_y - head_bounds.length)
    /\ ~(20 * vertex[3] < 20 * head_bounds.head_min_z - head_bounds.height)

\* _is_shoulder_enhanced: the box around chest_pos, in hundredths
_is_shoulder_enhanced(vertex, key_bones) ==
    /\ key_bones.chest_pos # <<>>
    /\ LET chest == key_bones.chest_pos
           dx == Abs(vertex[1] - chest[1])
           dy == vertex[2] - chest[2]
           dz == vertex[3] - chest[3]
       IN  -25 < dy /\ dy < 25 /\ 3 < dx /\ dx < 35 /\ -15 < dz /\ dz < 30

\* a weight row over nb bones: a numerator per bone over the denominator den
ZeroRow(nb) == [num |-> MapTo(LAMBDA b : 0, nb), den |-> 1]

\* weights[vertex_idx, bone] = 1.0 written into row
OneHot(row, bone) == [num |-> [row.num EXCEPT ![bone] = row.den], den |-> row.den]

\* the one numerator of bone_weights for bone b, 0 when b is not in it
WeightOf(bone_weights, b) ==
    LET at == {k \in 1..Len(bone_weights) : bone_weights[k].bone = b}
    IN  IF at = {} THEN 0 ELSE bone_weights[CHOOSE k \in at : TRUE].w

\* total = sum of w; weights[vertex_idx, bone_idx] = w / total for every (bone_idx, w)
Normalised(bone_weights, nb) ==
    [num |-> MapTo(LAMBDA b : WeightOf(bone_weights, b), nb),
     den |-> SumTo(MapTo(LAMBDA k : bone_weights[k].w, Len(bone_weights)), Len(bone_weights))]

\* total > self.epsilon, total in units of 100/WeightScale
epsilon_inverse == 1000000

AboveEpsilon(total) == total > (WeightScale \div 100) \div epsilon_inverse

\* the tests of _check_ankle_strict on one recorded ankle: it is on the vertex's side,
\* vertex.z < ankle_pos.z + height * 0.02 and dist < height * 0.04
AnkleHit(vertex, ankle, height) ==
    LET is_left == Contains(ankle.region, "L")
        is_left_vertex == vertex[1] > 0
    IN  /\ is_left = is_left_vertex
        /\ 50 * vertex[3] < 50 * ankle.pos[3] + height
        /\ 10000 * Distance2(vertex, ankle.pos) < 16 * height * height

RECURSIVE ClosestAnkle(_, _, _, _, _)
\* the loop of _check_ankle_strict from entry k on; closest is a position in ankles,
\* 0 while closest_ankle is None
ClosestAnkle(vertex, ankles, height, k, closest) ==
    IF k > Len(ankles) THEN closest
    ELSE IF /\ AnkleHit(vertex, ankles[k], height)
            /\ \/ closest = 0
               \/ Distance2(vertex, ankles[k].pos) < Distance2(vertex, ankles[closest].pos)
         THEN ClosestAnkle(vertex, ankles, height, k + 1, k)
         ELSE ClosestAnkle(vertex, ankles, height, k + 1, closest)

\* _check_ankle_strict that never finds an ankle
_check_ankle_strict_none(vertex, key_bones, model_info) == 0

\* _check_ankle_strict: the bone position of the closest ankle, 0 for None
_check_ankle_strict(vertex, key_bones, model_info) ==
    LET k == ClosestAnkle(vertex, key_bones.ankles, model_info.height, 1, 0)
    IN  IF k = 0 THEN 0 ELSE key_bones.ankles[k].bone

\* the raw weights of top_bones, exponent 2 or 1.5
BoneWeights(top_bones, shoulder) ==
    MapTo(LAMBDA k : [bone |-> top_bones[k].bone,
                      w |-> IF shoulder THEN RawWeight15(top_bones[k].dist, top_bones[1].dist)
                            ELSE RawWeight2(top_bones[k].dist, top_bones[1].dist)],
          Len(top_bones))

\* _compute_shoulder_weight that blends among all the bones
_compute_shoulder_weight_all_bones(vertex, row, js, bs, bone_regions, k) ==
    LET cand == MapTo(LAMBDA b : b, Len(bs))
        top_bones == TopBones(Distances(js, bs, vertex, cand), k)
        norm == Normalised(BoneWeights(top_bones, TRUE), Len(bs))
    IN  IF cand = <<>> THEN row
        ELSE IF AboveEpsilon(norm.den) THEN norm
        ELSE row

\* _compute_shoulder_weight: the row it leaves for a vertex
_compute_shoulder_weight(vertex, row, js, bs, bone_regions, k) ==
    LET cand == BonesIn(bone_regions, {"spine", "front_leg_L", "front_leg_R", "neck"})
        top_bones == TopBones(Distances(js, bs, vertex, cand), k)
        norm == Normalised(BoneWeights(top_bones, TRUE), Len(bs))
    IN  IF cand = <<>> THEN row
        ELSE IF AboveEpsilon(norm.den) THEN norm
        ELSE row

\* _compute_weight_excluding_bones
_compute_weight_excluding_bones(vertex, row, js, bs, excluded_bones, k) ==
    LET all == MapTo(LAMBDA b : b, Len(bs))
        kept == PositionsWhere(MapTo(LAMBDA b : b \notin excluded_bones, Len(bs)), Len(bs), 1)
        top_bones == TopBones(Distances(js, bs, vertex, IF kept = <<>> THEN all ELSE kept), k)
        norm == Normalised(BoneWeights(top_bones, FALSE), Len(bs))
    IN  IF top_bones = <<>> THEN row
        ELSE IF AboveEpsilon(norm.den) THEN norm
        ELSE OneHot(row, top_bones[1].bone)

RECURSIVE NearestFrom(_, _, _)
\* the first loop of _compute_normal_weight: a bone replaces nearest_bone only when
\* strictly closer; nearest_bone starts at bone 0 with min_dist infinite
NearestFrom(all_dist, b, nearest) ==
    IF b > Len(all_dist) THEN nearest
    ELSE IF b = 1 \/ DistLess(all_dist[b].dist, all_dist[nearest].dist)
         THEN NearestFrom(all_dist, b + 1, b)
         ELSE NearestFrom(all_dist, b + 1, nearest)

NearestBone(js, bs, vertex) ==
    NearestFrom(Distances(js, bs, vertex, MapTo(LAMBDA b : b, Len(bs))), 1, 1)

\* _compute_normal_weight
_compute_normal_weight(vertex, row, js, bs, bone_regions, k) ==
    LET nearest_bone == NearestBone(js, bs, vertex)
        allowed_bones == _get_allowed_bones(bone_regions[nearest_bone], bone_regions, nearest_bone)
        top_bones == TopBones(Distances(js, bs, vertex, allowed_bones), k)
        norm == Normalised(BoneWeights(top_bones, FALSE), Len(bs))
    IN  IF top_bones # <<>> /\ AboveEpsilon(norm.den) THEN norm
        ELSE IF top_bones # <<>> THEN OneHot(row, top_bones[1].bone)
        ELSE OneHot(row, nearest_bone)

\* what compute_weights derives from the skeleton and the mesh before its vertex loop
WeightContext(verts, js, bs) ==
    LET bone_regions == _classify_bones(bs)
        model_info == ModelInfo(verts)
    IN  [bone_regions   |-> bone_regions,
         key_bones      |-> _get_key_bones(js, bs, bone_regions),
         excluded_bones |-> _get_excluded_bones(bone_regions),
         model_info     |-> model_info,
         head_bounds    |-> _compute_head_bounds(js, bs, bone_regions, model_info)]

\* the branch the vertex loop of compute_weights takes for a vertex
Tier(vertex, ctx) ==
    IF _check_ankle_strict(vertex, ctx.key_bones, ctx.model_info) # 0 THEN "ankle"
    ELSE IF _is_shoulder_enhanced(vertex, ctx.key_bones) THEN "shoulder"
    ELSE IF _is_in_head_region(vertex, ctx.head_bounds) THEN "head_region"
    ELSE "normal"

\* one pass of the vertex loop: the row of a vertex when the loop ends
VertexRow(vertex, ctx, js, bs, k) ==
    LET ankle_result == _check_ankle_strict(vertex, ctx.key_bones, ctx.model_info)
        row == ZeroRow(Len(bs))
    IN  IF ankle_result # 0 THEN OneHot(row, ankle_result)
        ELSE IF _is_shoulder_enhanced(vertex, ctx.key_bones)
             THEN _compute_shoulder_weight(vertex, row, js, bs, ctx.bone_regions, k)
        ELSE IF _is_in_head_region(vertex, ctx.head_bounds)
             THEN _compute_weight_excluding_bones(vertex, row, js, bs, ctx.excluded_bones, k)
        ELSE _compute_normal_weight(vertex, row, js, bs, ctx.bone_regions, k)

\* row_sums[i]
RowSum(row) == SumTo(row.num, Len(row.num))

\* np.abs(row_sums - 1.0) > 1e-4
Invalid(row) == Abs(RowSum(row) - row.den) > row.den \div 10000

\* _validate_weights that leaves a row with no weight as it is
_validate_weights_rescale_only(W) ==
    MapTo(LAMBDA i : IF Invalid(W[i]) /\ RowSum(W[i]) > W[i].den \div epsilon_inverse
                     THEN [num |-> W[i].num, den |-> RowSum(W[i])]
                     ELSE W[i],
          Len(W))

\* _validate_weights that writes weights[i, 0] = 1.0 into every invalid row
_validate_weights_reset_always(W) ==
    MapTo(LAMBDA i : IF Invalid(W[i]) THEN OneHot(W[i], 1) ELSE W[i], Len(W))

\* _validate_weights: an invalid row is divided by its sum when the sum exceeds
\* epsilon, and gets weights[i, 0] = 1.0 otherwise
_validate_weights(W) ==
    MapTo(LAMBDA i : IF ~Invalid(W[i]) THEN W[i]
                     ELSE IF RowSum(W[i]) > W[i].den \div epsilon_inverse
                          THEN [num |-> W[i].num, den |-> RowSum(W[i])]
                          ELSE OneHot(W[i], 1),
          Len(W))

\* the matrix of compute_weights before _validate_weights
RawWeights(verts, js, bs, k) ==
    LET ctx == WeightContext(verts, js, bs)
    IN  MapTo(LAMBDA i : VertexRow(verts[i], ctx, js, bs, k), Len(verts))

\* WeightCalculatorV15.compute_weights
compute_weights(verts, js, bs, k) == _validate_weights(RawWeights(verts, js, bs, k))

(***************************************************************************)
(* Inputs of the weight runs.                                              *)
(***************************************************************************)
\* a quadruped: spine, neck and head, a left front leg, tail, both back legs with ankles
QuadrupedJoints ==
    << Joint("rigRoot", 0, <<0, 0, 50>>, ""),
       Joint("rigSpine1", 1, <<0, 20, 50>>, "rigRoot"),
       Joint("rigChest", 2, <<0, 40, 50>>, "rigSpine1"),
       Joint("rigNeck1", 3, <<0, 50, 60>>, "rigChest"),
       Joint("rigHead", 4, <<0, 60, 70>>, "rigNeck1"),
       Joint("rigLFLeg1", 5, <<10, 40, 50>>, "rigChest"),
       Joint("rigLFLeg2", 6, <<10, 40, 25>>, "rigLFLeg1"),
       Joint("rigPelvis", 7, <<0, -10, 50>>, "rigRoot"),
       Joint("rigTail1", 8, <<0, -30, 50>>, "rigPelvis"),
       Joint("rigRBLeg1", 9, <<-30, -10, 50>>, "rigPelvis"),
       Joint("rigLBLeg1", 10, <<30, -10, 50>>, "rigPelvis"),
       Joint("rigLBLegAnkle", 11, <<30, -10, 5>>, "rigLBLeg1"),
       Joint("rigRBLegAnkle", 12, <<-30, -10, 5>>, "rigRBLeg1") >>

\* a tail whose middle joint has 'chest' in its name: a chest key bone, and no bone
\* of the spine, front-leg or neck regions
TailChestJoints ==
    << Joint("rigTail1", 0, <<0, 0, 50>>, ""),
       Joint("rigTailChest", 1, <<0, 20, 50>>, "rigTail1"),
       Joint("rigTail3", 2, <<0, 40, 50>>, "rigTailChest") >>

\* a root with a left front leg, a tail and a right back leg: no spine bone
CompactJoints ==
    << Joint("rigRoot", 0, <<0, 30, 50>>, ""),
       Joint("rigLFLeg1", 1, <<10, 40, 50>>, "rigRoot"),
       Joint("rigLFLeg2", 2, <<10, 40, 25>>, "rigLFLeg1"),
       Joint("rigTail1", 3, <<0, 10, 50>>, "rigRoot"),
       Joint("rigRBLeg1", 4, <<-10, 30, 50>>, "rigRoot") >>

\* a neck and a head with a jaw and a two-bone tongue
HeadJoints ==
    << Joint("rigNeck1", 0, <<0, 50, 60>>, ""),
       Joint("rigHead", 1, <<0, 60, 70>>, "rigNeck1"),
       Joint("rigJaw", 2, <<0, 68, 66>>, "rigHead"),
       Joint("rigTongue1", 3, <<0, 70, 67>>, "rigJaw"),
       Joint("rigTongue2", 4, <<0, 74, 67>>, "rigTongue1") >>

WeightSkeletons == {QuadrupedJoints, TailChestJoints, CompactJoints, HeadJoints}

\* the vertices the meshes are made of
WeightVertices ==
    << <<31, -10, 3>>, <<0, 60, 103>>, <<12, 40, 30>>, <<5, 20, 55>>, <<0, -25, 52>>,
       <<-31, -10, 3>>, <<31, -10, 8>>, <<0, -10, 50>>, <<12, 46, 50>>, <<0, 45, 56>>,
       <<-12, 40, 30>>, <<-5, -4, 50>> >>

\* the meshes: up to MaxMeshVerts of the vertices, in the order of WeightVertices
WeightMeshes ==
    LET picks == UNION {[1..n -> 1..Len(WeightVertices)] : n \in 1..MaxMeshVerts}
        rising == {f \in picks : \A i \in 1..(Len(f) - 1) : f[i] < f[i + 1]}
    IN  {MapTo(LAMBDA i : WeightVertices[f[i]], Len(f)) : f \in rising}

(***************************************************************************)
(* The weight runs: load a skeleton, then compute the weights of a mesh.   *)
(***************************************************************************)
\* calculator.compute_weights(mesh, skeleton)
ComputeWeights ==
    /\ pc = "ready"
    /\ weights' = compute_weights(mesh, joints, bones, max_influences)
    /\ pc' = "weighted"
    /\ UNCHANGED <<skeletonVars, deformVars, mesh, max_influences, callVars, uiVars, clipVars>>

InitWeights ==
    /\ pc = "loaded"
    /\ joints \in WeightSkeletons
    /\ bones = <<>>
    /\ root_joint = 0
    /\ deformer = NoDeformer
    /\ update_runs = 0
    /\ mesh \in WeightMeshes
    /\ max_influences \in 1..MaxInfluences
    /\ weights = <<>>
    /\ args = <<>>
    /\ result = <<>>
    /\ animator = NoAnimator
    /\ control_panel = NoControlPanel
    /\ timer = FALSE
    /\ screen = <<>>
    /\ new_clip = NoClip

NextWeights ==
    \/ BuildHierarchy
    \/ BuildBones
    \/ ComputeWeights

SpecWeights == InitWeights /\ [][NextWeights]_vars

(***************************************************************************)
(* Properties of the weight matrix.                                        *)
(***************************************************************************)
Weighted == pc = "weighted"

\* the bones with non-zero weight in a row
Support(row) == {b \in 1..Len(row.num) : row.num[b] # 0}

\* the row gives everything to bone b
OnlyBone(row, b) == row.num[b] = row.den /\ Support(row) = {b}

\* the squared distance of vertex i of the mesh to bone b
DistTo(i, b) == BoneDistance(joints, bones, mesh[i], b).dist

\* some bone of the region is strictly closer to vertex i than every bone of any other region
NearestIn(i, region) ==
    LET bone_regions == _classify_bones(bones)
    IN  \E b \in 1..Len(bones) :
           /\ bone_regions[b] = region
           /\ \A c \in 1..Len(bones) :
                 bone_regions[c] # region => DistLess(DistTo(i, b), DistTo(i, c))

TierOf(i) == Tier(mesh[i], WeightContext(mesh, joints, bones))

\* C1: after compute_weights every row has only entries >= 0 and a sum within 1e-4
\* of 1, whichever tier produced it.
C1_RowsNormalised ==
    Weighted =>
        \A i \in 1..Len(mesh) :
            /\ \A b \in 1..Len(bones) : weights[i].num[b] >= 0
            /\ weights[i].den > 0
            /\ Abs(RowSum(weights[i]) - weights[i].den) <= weights[i].den \div 10000

\* a matrix with a blended row and a row the vertex loop left without any weight
C1_Witness ==
    /\ Weighted
    /\ \E i, j \in 1..Len(mesh) :
          /\ RowSum(RawWeights(mesh, joints, bones, max_influences)[i]) = 0
          /\ TierOf(i) = "shoulder"
          /\ TierOf(j) = "normal"
          /\ Cardinality(Support(weights[j])) > 1

\* C2: after compute_weights every row has at most max_influences non-zero entries,
\* for every max_influences from 1 up and every tier, validation included.
C2_AtMostMaxInfluences ==
    Weighted => \A i \in 1..Len(mesh) : Cardinality(Support(weights[i])) <= max_influences

\* a shoulder row cut down to max_influences of its six candidate bones
C2_Witness ==
    /\ Weighted
    /\ max_influences = 2
    /\ \E i \in 1..Len(mesh) :
          /\ TierOf(i) = "shoulder"
          /\ Len(BonesIn(_classify_bones(bones), {"spine", "front_leg_L", "front_leg_R", "neck"})) = 6
          /\ Cardinality(Support(weights[i])) = 2

\* C7: a vertex whose nearest bone is tagged front_leg_L, and which is in neither the
\* ankle nor the shoulder zone, has zero weight on every tail and back_leg_R bone.
C7_FrontLegContainment ==
    Weighted =>
        \A i \in 1..Len(mesh) :
            (NearestIn(i, "front_leg_L") /\ TierOf(i) \notin {"ankle", "shoulder"}) =>
                \A b \in 1..Len(bones) :
                    _classify_bones(bones)[b] \in {"tail", "back_leg_R"} => weights[i].num[b] = 0

\* a default-tier vertex nearest to the left front leg, weighted on it, in a skeleton
\* with a tail and a right back leg that are among its max_influences nearest bones
C7_Witness ==
    /\ Weighted
    /\ Len(bones) = 4
    /\ max_influences = 3
    /\ \E i \in 1..Len(mesh) :
          /\ NearestIn(i, "front_leg_L")
          /\ TierOf(i) = "normal"
          /\ \E b \in Support(weights[i]) : _classify_bones(bones)[b] = "front_leg_L"
          /\ \E b \in 1..Len(bones) : _classify_bones(bones)[b] \in {"tail", "back_leg_R"}

\* the recorded ankles a vertex qualifies for: on its side (x > 0 is left), below the
\* ankle position plus 2% of the height, closer to it than 4% of the height
AnklesAround(i) ==
    LET ankles == _get_key_bones(joints, bones, _classify_bones(bones)).ankles
        height == ModelInfo(mesh).height
        v == mesh[i]
    IN  {k \in 1..Len(ankles) :
            /\ (v[1] > 0) = (ankles[k].region \in {"ankle_BL", "ankle_FL"})
            /\ 50 * v[3] < 50 * ankles[k].pos[3] + height
            /\ 10000 * Distance2(v, ankles[k].pos) < 16 * height * height}

\* C8: a vertex that qualifies for a recorded ankle gets all its weight on the bone of
\* a nearest such ankle and none on any other bone.
C8_AnkleExclusive ==
    Weighted =>
        \A i \in 1..Len(mesh) :
            LET ankles == _get_key_bones(joints, bones, _classify_bones(bones)).ankles
            IN  AnklesAround(i) # {} =>
                   \E k \in AnklesAround(i) :
                      /\ \A q \in AnklesAround(i) :
                            Distance2(mesh[i], ankles[k].pos) <= Distance2(mesh[i], ankles[q].pos)
                      /\ OnlyBone(weights[i], ankles[k].bone)

\* the spec's example: left ankle at (0.3, -0.1, 0.05), height 1.0, vertex (0.31, -0.1, 0.03)
C8_Witness ==
    /\ Weighted
    /\ ModelInfo(mesh).height = 100
    /\ \E i \in 1..Len(mesh) :
          /\ mesh[i] = <<31, -10, 3>>
          /\ \E k \in AnklesAround(i) :
                /\ _get_key_bones(joints, bones, _classify_bones(bones)).ankles[k].pos = <<30, -10, 5>>
                /\ OnlyBone(weights[i], _get_key_bones(joints, bones, _classify_bones(bones)).ankles[k].bone)

(***************************************************************************)
(* Properties of the deformer's frame, the classifier and the drivers.     *)
(***************************************************************************)
\* the weight row gives all its weight to bone b
RowOnlyOn(row, b) == \A c \in 1..Len(row.num) : (row.num[c] # 0) = (c = b)

\* C11: update() changes nothing but the deformed-vertex buffer: the weights, the
\* bind vertices, the bind inverses and every joint (local transform, global
\* transform, bind matrix) are as before the call, and the buffer has one entry per
\* bind vertex, in the order of the bind vertices.
C11_UpdateWritesBufferOnly ==
    [][DeformerUpdate =>
          /\ deformer'.weights = deformer.weights
          /\ deformer'.bind_vertices = deformer.bind_vertices
          /\ deformer'.bind_inverse = deformer.bind_inverse
          /\ joints' = joints /\ bones' = bones /\ root_joint' = root_joint
          /\ Len(deformer'.deformed_vertices) = Len(deformer.bind_vertices)
          /\ \A v \in 1..Len(deformer.bind_vertices), b \in 1..Len(bones) :
                RowOnlyOn(deformer.weights[v], b) =>
                    deformer'.deformed_vertices[v] =
                        Point(TransformPoint(
                                 SkinningMatrix(deformer, _get_current_global_matrices(joints),
                                                joints, bones[b]),
                                 deformer.bind_vertices[v]), 1)]_vars

\* an update() of a two-vertex mesh in a pose that moves a vertex driven by one bone
C11_Witness ==
    /\ BufferCurrent
    /\ ~AllLocalIdentity
    /\ Len(deformer.bind_vertices) = 2
    /\ \E v \in 1..2, b \in 1..Len(bones) :
          /\ RowOnlyOn(deformer.weights[v], b)
          /\ deformer.deformed_vertices[v] # Point(deformer.bind_vertices[v], 1)

\* the regions whose keywords name an ankle, and the head keywords
AnkleRegions == {"ankle_BL", "ankle_BR", "ankle_FL", "ankle_FR"}

\* one of the region's keywords is in the bone's lowercased name without '_' and '-'
NameHasKeywordOf(name, region) ==
    LET kw == region_keywords(region)
    IN  \E i \in 1..Len(kw) : Contains(Remove(Remove(Lower(name), "_"), "-"), kw[i])

\* C12: classify_bones tags a bone whose name contains a head keyword (righead,
\* rigjaw, rigtongue, rigeyelid, rigear) and no ankle keyword as head.
C12_HeadKeywordTaggedHead ==
    Weighted =>
        \A b \in 1..Len(bones) :
            (/\ NameHasKeywordOf(bones[b].name, "head")
             /\ \A r \in AnkleRegions : ~NameHasKeywordOf(bones[b].name, r))
            => _classify_bones(bones)[b] = "head"

(***************************************************************************)
(* skinning/bone_classifier.py : BoneClassifier, the stand-alone copy of   *)
(* the classification logic.  Bone indices are list positions, 0 standing  *)
(* for None; the ankles dict is the list of its entries in insertion order.*)
(***************************************************************************)
\* BoneClassifier.REGION_KEYWORDS; REGION_KEYWORDS.get(region, [])
REGION_KEYWORDS(region) ==
    CASE region = "head"        -> <<"righead", "rigjaw", "rigtongue", "rigeyelid", "rigear">>
      [] region = "neck"        -> <<"rigneck">>
      [] region = "spine"       -> <<"rigroot", "rigpelvis", "rigspine", "rigchest">>
      [] region = "tail"        -> <<"rigtail">>
      [] region = "back_leg_L"  -> <<"riglbleg">>
      [] region = "back_leg_R"  -> <<"rigrbleg">>
      [] region = "front_leg_L" -> <<"riglfleg", "riglflegcollarbone">>
      [] region = "front_leg_R" -> <<"rigrfleg", "rigrflegcollarbone">>
      [] region = "ankle_BL"    -> <<"riglblegankle">>
      [] region = "ankle_BR"    -> <<"rigrblegankle">>
      [] region = "ankle_FL"    -> <<"riglflegankle">>
      [] region = "ankle_FR"    -> <<"rigrflegankle">>
      [] OTHER                  -> <<>>

\* BoneClassifier.REGION_GROUPS; REGION_GROUPS.get(region, {region, 'spine'})
REGION_GROUPS(region) ==
    CASE region = "head"        -> {"head", "neck"}
      [] region = "neck"        -> {"head", "neck", "spine"}
      [] region = "spine"       -> {"spine", "neck"}
      [] region = "tail"        -> {"tail", "spine"}
      [] region = "front_leg_L" -> {"front_leg_L", "spine"}
      [] region = "front_leg_R" -> {"front_leg_R", "spine"}
      [] region = "back_leg_L"  -> {"back_leg_L", "spine"}
      [] region = "back_leg_R"  -> {"back_leg_R", "spine"}
      [] region = "ankle_BL"    -> {"ankle_BL", "back_leg_L"}
      [] region = "ankle_BR"    -> {"ankle_BR", "back_leg_R"}
      [] region = "ankle_FL"    -> {"ankle_FL", "front_leg_L"}
      [] region = "ankle_FR"    -> {"ankle_FR", "front_leg_R"}
      [] OTHER                  -> {region, "spine"}

\* the priority list with the leg regions tried before the ankle regions
classifier_priority_legs_first ==
    << "head", "neck", "tail", "back_leg_L", "back_leg_R", "front_leg_L", "front_leg_R",
       "ankle_BL", "ankle_BR", "ankle_FL", "ankle_FR", "spine" >>

\* the priority list of classify_bones
classifier_priority ==
    << "ankle_BL", "ankle_BR", "ankle_FL", "ankle_FR", "head", "neck", "tail",
       "back_leg_L", "back_leg_R", "front_leg_L", "front_leg_R", "spine" >>

RECURSIVE MatchRegion(_, _)
\* the priority loop of classify_bones from position k on: the first region any of
\* whose keywords is in the name, the default 'spine' when there is none
MatchRegion(normalized_name, k) ==
    IF k > Len(classifier_priority) THEN "spine"
    ELSE IF \E i \in 1..Len(REGION_KEYWORDS(classifier_priority[k])) :
               Contains(normalized_name, REGION_KEYWORDS(classifier_priority[k])[i])
         THEN classifier_priority[k]
         ELSE MatchRegion(normalized_name, k + 1)

\* BoneClassifier.classify_bones: bone_regions as the list of regions in bone order
classify_bones(bs) ==
    MapTo(LAMBDA b : MatchRegion(Remove(Remove(Remove(Lower(bs[b].name), "_"), "-"), "to"), 1),
          Len(bs))

\* key_bones['ankles'][region] = (bone_idx, position): a dict keeps a key where it
\* was first inserted and the value last assigned to it
PutAnkle(ankles, entry) ==
    IF \E k \in 1..Len(ankles) : ankles[k].region = entry.region
    THEN MapTo(LAMBDA k : IF ankles[k].region = entry.region THEN entry ELSE ankles[k],
               Len(ankles))
    ELSE Append(ankles, entry)

\* the body of the loop of identify_key_bones that lets a later bone replace the
\* recorded head and chest bones
KeyBoneStepOverwriting(js, bs, bone_regions, b, key_bones) ==
    LET name_lower == Lower(bs[b].name)
        end_joint == js[bs[b].end_joint]
        is_head == /\ bone_regions[b] = "head"
                   /\ Contains(name_lower, "righead")
                   /\ Contains(Lower(end_joint.name), "righead")
        is_chest == Contains(name_lower, "chest")
    IN  [head_idx  |-> IF is_head THEN b ELSE key_bones.head_idx,
         head_pos  |-> IF is_head THEN end_joint.head ELSE key_bones.head_pos,
         ankles    |-> IF StartsWith(bone_regions[b], "ankle_")
                       THEN PutAnkle(key_bones.ankles,
                                     [region |-> bone_regions[b], bone |-> b,
                                      pos |-> end_joint.head])
                       ELSE key_bones.ankles,
         chest_idx |-> IF is_chest THEN b ELSE key_bones.chest_idx,
         chest_pos |-> IF is_chest THEN js[bs[b].start_joint].head ELSE key_bones.chest_pos]

\* the body of the loop of identify_key_bones for bone b (bone_classifier.py 109-127)
KeyBoneStep(js, bs, bone_regions, b, key_bones) ==
    LET name_lower == Lower(bs[b].name)
        end_joint == js[bs[b].end_joint]
        is_head == /\ bone_regions[b] = "head"
                   /\ key_bones.head_idx = 0
                   /\ Contains(name_lower, "righead")
                   /\ Contains(Lower(end_joint.name), "righead")
        is_chest == Contains(name_lower, "chest") /\ key_bones.chest_idx = 0
    IN  [head_idx  |-> IF is_head THEN b ELSE key_bones.head_idx,
         head_pos  |-> IF is_head THEN end_joint.head ELSE key_bones.head_pos,
         ankles    |-> IF StartsWith(bone_regions[b], "ankle_")
                       THEN PutAnkle(key_bones.ankles,
                                     [region |-> bone_regions[b], bone |-> b,
                                      pos |-> end_joint.head])
                       ELSE key_bones.ankles,
         chest_idx |-> IF is_chest THEN b ELSE key_bones.chest_idx,
         chest_pos |-> IF is_chest THEN js[bs[b].start_joint].head ELSE key_bones.chest_pos]

RECURSIVE KeyBonesFrom(_, _, _, _, _)
\* the loop of identify_key_bones over bone_regions.items() from bone b on
KeyBonesFrom(js, bs, bone_regions, b, key_bones) ==
    IF b > Len(bone_regions) THEN key_bones
    ELSE CHOOSE r \in {KeyBonesFrom(js, bs, bone_regions, b + 1, k) :
                          k \in {KeyBoneStep(js, bs, bone_regions, b, key_bones)}} : TRUE

\* BoneClassifier.identify_key_bones
identify_key_bones(js, bs, bone_regions) ==
    KeyBonesFrom(js, bs, bone_regions, 1,
                 [head_idx |-> 0, head_pos |-> <<>>, ankles |-> <<>>,
                  chest_idx |-> 0, chest_pos |-> <<>>])

\* BoneClassifier.get_allowed_bones
get_allowed_bones(region, bone_regions, nearest_bone) ==
    LET bones_found == BonesIn(bone_regions, REGION_GROUPS(region))
    IN  IF bones_found # <<>> THEN bones_found ELSE <<nearest_bone>>

\* a skeleton with a jaw listed before the head, two bones named after the chest,
\* two bones that end in a head joint and two bones of the left back ankle
KeyBoneJoints ==
    << Joint("rigSpine1", 0, <<0, 0, 50>>, ""),
       Joint("rigJaw", 1, <<0, 48, 56>>, "rigHead"),
       Joint("rigChest", 2, <<0, 20, 50>>, "rigSpine1"),
       Joint("rigHead", 3, <<0, 40, 60>>, "rigChest"),
       Joint("rigHeadTip", 4, <<0, 50, 62>>, "rigHead"),
       Joint("rigLBLegAnkle", 5, <<30, 0, 5>>, "rigSpine1"),
       Joint("rigLBLegAnkleTip", 6, <<30, 4, 0>>, "rigLBLegAnkle") >>

\* the loaded skeletons the classifier is called with
ClassifierSkeletons ==
    {build_hierarchy(js) : js \in WeightSkeletons \cup {KeyBoneJoints}}

KeyBonesCalls ==
    {[op |-> "identify_key_bones", joints |-> js, bones |-> build_bones(js),
      bone_regions |-> classify_bones(build_bones(js))] : js \in ClassifierSkeletons}

\* classifier.identify_key_bones(skeleton, bone_regions)
CallIdentifyKeyBones ==
    /\ pc = "call"
    /\ args.op = "identify_key_bones"
    /\ result' = [value |-> identify_key_bones(args.joints, args.bones, args.bone_regions)]
    /\ pc' = "returned"
    /\ UNCHANGED <<skeletonVars, deformVars, weightVars, args, uiVars, clipVars>>

ClassifyCalls ==
    {[op |-> "classify_bones", bones |-> build_bones(js)] : js \in ClassifierSkeletons}

\* classifier.classify_bones(skeleton)
CallClassifyBones ==
    /\ pc = "call"
    /\ args.op = "classify_bones"
    /\ result' = [value |-> classify_bones(args.bones)]
    /\ pc' = "returned"
    /\ UNCHANGED <<skeletonVars, deformVars, weightVars, args, uiVars, clipVars>>

(***************************************************************************)
(* Direct calls of the helper functions.                                   *)
(***************************************************************************)
\* region tags given to get_allowed_bones; 'wing' is in no table
RegionSample ==
    {"head", "neck", "spine", "tail", "front_leg_L", "back_leg_L", "ankle_BL", "ankle_FL", "wing"}

\* the region maps of up to MaxRegionMap bones, as lists of tags in bone order
RegionMaps ==
    LET fs == UNION {[1..n -> RegionSample] : n \in 0..MaxRegionMap}
    IN  {MapTo(LAMBDA b : f[b], Cardinality(DOMAIN f)) : f \in fs}

AllowedBonesCalls ==
    {[op |-> "get_allowed_bones", region |-> r, bone_regions |-> m, nearest |-> n] :
        r \in RegionSample, m \in RegionMaps, n \in 1..MaxRegionMap}

\* get_allowed_bones(region, bone_regions, nearest_bone)
CallGetAllowedBones ==
    /\ pc = "call"
    /\ args.op = "get_allowed_bones"
    /\ result' = [value |-> _get_allowed_bones(args.region, args.bone_regions, args.nearest)]
    /\ pc' = "returned"
    /\ UNCHANGED <<skeletonVars, deformVars, weightVars, args, uiVars, clipVars>>

\* the points with coordinates 0..MaxCoord
GridPoints == {<<x, y, z>> : x \in 0..MaxCoord, y \in 0..MaxCoord, z \in 0..MaxCoord}

\* segments start at a corner or the centre of the grid's floor
SegmentStarts == {<<0, 0, 0>>, <<1, 1, 0>>, <<MaxCoord, 0, 0>>}

SegmentDistanceCalls ==
    {[op |-> "point_to_segment_distance", point |-> p, seg_start |-> a, seg_end |-> b] :
        p \in GridPoints, a \in SegmentStarts, b \in GridPoints}

\* point_to_segment_distance(point, seg_start, seg_end)
CallPointToSegmentDistance ==
    /\ pc = "call"
    /\ args.op = "point_to_segment_distance"
    /\ result' = [value |-> point_to_segment_distance(args.point, args.seg_start, args.seg_end)]
    /\ pc' = "returned"
    /\ UNCHANGED <<skeletonVars, deformVars, weightVars, args, uiVars, clipVars>>

\* rows of a two-bone weight matrix: the row np.zeros leaves, normalised rows, rows
\* within 1e-4 of sum 1, and rows whose sum is off by more
RowSample ==
    { [num |-> <<0, 0>>, den |-> 1], [num |-> <<1, 0>>, den |-> 1],
      [num |-> <<0, 1>>, den |-> 1], [num |-> <<1, 3>>, den |-> 4],
      [num |-> <<10000, 10001>>, den |-> 20000],
      [num |-> <<10000, 10004>>, den |-> 20000],
      [num |-> <<1, 1>>, den |-> 1], [num |-> <<1, 0>>, den |-> 2] }

ValidateWeightsCalls ==
    {[op |-> "_validate_weights", weights |-> <<r>>] : r \in RowSample}
    \cup {[op |-> "_validate_weights", weights |-> <<r, s>>] : r, s \in RowSample}

\* self._validate_weights(weights, skeleton); weights is changed in place
CallValidateWeights ==
    /\ pc = "call"
    /\ args.op = "_validate_weights"
    /\ result' = [value |-> _validate_weights(args.weights)]
    /\ pc' = "returned"
    /\ UNCHANGED <<skeletonVars, deformVars, weightVars, args, uiVars, clipVars>>

InitCalls ==
    /\ pc = "call"
    /\ joints = <<>>
    /\ bones = <<>>
    /\ root_joint = 0
    /\ deformer = NoDeformer
    /\ update_runs = 0
    /\ mesh = <<>>
    /\ max_influences = 1
    /\ weights = <<>>
    /\ args \in AllowedBonesCalls \cup SegmentDistanceCalls \cup ValidateWeightsCalls
                \cup KeyBonesCalls \cup ClassifyCalls
    /\ result = <<>>
    /\ animator = NoAnimator
    /\ control_panel = NoControlPanel
    /\ timer = FALSE
    /\ screen = <<>>
    /\ new_clip = NoClip

NextCalls ==
    \/ CallGetAllowedBones
    \/ CallPointToSegmentDistance
    \/ CallValidateWeights
    \/ CallIdentifyKeyBones
    \/ CallClassifyBones

SpecCalls == InitCalls /\ [][NextCalls]_vars

\* the ankle regions' adjacency as the claim words it: the region and its parent leg
ParentLeg(region) ==
    CASE region = "ankle_BL" -> "back_leg_L" [] region = "ankle_BR" -> "back_leg_R"
      [] region = "ankle_FL" -> "front_leg_L" [] region = "ankle_FR" -> "front_leg_R"

\* C13: get_allowed_bones returns exactly the bones tagged with a region of the given
\* region's adjacency set (for an ankle region: itself and its parent leg), returns
\* [fallback_bone] when there is no such bone, and so never returns an empty list.
C13_AllowedBonesNeverEmpty ==
    (pc = "returned" /\ args.op = "get_allowed_bones") =>
        LET m == args.bone_regions
            adj == IF args.region \in AnkleRegions
                   THEN {args.region, ParentLeg(args.region)}
                   ELSE groups(args.region)
            hits == {b \in 1..Len(m) : m[b] \in adj}
        IN  /\ result.value # <<>>
            /\ hits # {} => /\ Range(result.value) = hits
                            /\ Len(result.value) = Cardinality(hits)
            /\ hits = {} => result.value = <<args.nearest>>

\* a call for an ankle region on a map with a spine bone and no ankle or leg bone
C13_Witness ==
    /\ pc = "returned"
    /\ args.op = "get_allowed_bones"
    /\ args.region = "ankle_BL"
    /\ args.bone_regions = <<"spine", "tail">>
    /\ args.nearest = 2
    /\ result.value = <<2>>

(***************************************************************************)
(* Animation.  Times are whole ticks of the playback timer.  A reference   *)
(* to a keyframe is its position in the joint's keyframe list, a reference *)
(* to a clip its position in Clips, 0 standing for None.  A blend factor   *)
(* is num/den; the clips of the model put their keyframes on ticks, so     *)
(* every blend is 0 or 1 and lerp stays on whole numbers.                  *)
(***************************************************************************)
JointKeyframe(time, rotation, translation, scale) ==
    [time |-> time, rotation |-> rotation, translation |-> translation, scale |-> scale]

ROTATION_SCALE == 1

\* Matrix4.scale
MatrixScale(x, y, z) ==
    << <<x, 0, 0, 0>>, <<0, y, 0, 0>>, <<0, 0, z, 0>>, <<0, 0, 0, 1>> >>

\* JointKeyframe.get_transform_matrix: T * R * S with R = Rz * Ry * Rx
get_transform_matrix(kf) ==
    LET S  == MatrixScale(kf.scale[1], kf.scale[2], kf.scale[3])
        Rx == rotation_x(kf.rotation[1] * ROTATION_SCALE)
        Ry == rotation_y(kf.rotation[2] * ROTATION_SCALE)
        Rz == rotation_z(kf.rotation[3] * ROTATION_SCALE)
        R  == MatMul(MatMul(Rz, Ry), Rx)
        T  == Translation(kf.translation[1], kf.translation[2], kf.translation[3])
    IN  MatMul(MatMul(T, R), S)

\* lerp(a, b, t) = a + (b - a) * t
lerp(a, b, t) == a + ((b - a) * t.num) \div t.den

RECURSIVE FirstInterval(_, _, _)
\* the first i >= from with keyframes[i].time <= time <= keyframes[i + 1].time, 0 if none
FirstInterval(keyframes, time, from) ==
    IF from >= Len(keyframes) THEN 0
    ELSE IF keyframes[from].time <= time /\ time <= keyframes[from + 1].time THEN from
    ELSE FirstInterval(keyframes, time, from + 1)

find_keyframe_interval(keyframes, time) ==
    LET n == Len(keyframes)
        i == FirstInterval(keyframes, time, 1)
    IN  IF n = 0 THEN [kf0 |-> 0, kf1 |-> 0, blend |-> [num |-> 0, den |-> 1]]
        ELSE IF n = 1 THEN [kf0 |-> 1, kf1 |-> 1, blend |-> [num |-> 0, den |-> 1]]
        ELSE IF time <= keyframes[1].time THEN [kf0 |-> 1, kf1 |-> 1, blend |-> [num |-> 0, den |-> 1]]
        ELSE IF time >= keyframes[n].time THEN [kf0 |-> n, kf1 |-> n, blend |-> [num |-> 0, den |-> 1]]
        ELSE IF i # 0
             THEN LET t0 == keyframes[i].time
                      t1 == keyframes[i + 1].time
                  IN  [kf0 |-> i, kf1 |-> i + 1,
                       blend |-> IF t1 > t0 THEN [num |-> time - t0, den |-> t1 - t0]
                                            ELSE [num |-> 0, den |-> 1]]
        ELSE [kf0 |-> n, kf1 |-> n, blend |-> [num |-> 0, den |-> 1]]

interpolate_keyframe(kf0, kf1, t) ==
    JointKeyframe(lerp(kf0.time, kf1.time, t),
                  MapTo(LAMBDA k : lerp(kf0.rotation[k], kf1.rotation[k], t), 3),
                  MapTo(LAMBDA k : lerp(kf0.translation[k], kf1.translation[k], t), 3),
                  MapTo(LAMBDA k : lerp(kf0.scale[k], kf1.scale[k], t), 3))

\* the animation library: AnimationClip objects as load_animation builds them
Clips ==
    << [name |-> "nod", duration |-> 2,
        keyframes |->
          << [joint_name |-> "rigSpine1",
              frames |-> << JointKeyframe(0, <<0, 0, 0>>, <<0, 0, 0>>, <<1, 1, 1>>),
                            JointKeyframe(1, <<1, 0, 0>>, <<0, 0, 0>>, <<1, 1, 1>>),
                            JointKeyframe(2, <<0, 0, 1>>, <<0, 0, 0>>, <<1, 1, 1>>) >>],
             [joint_name |-> "rigLBLegAnkle",
              frames |-> << JointKeyframe(0, <<0, 0, 0>>, <<0, 0, 0>>, <<1, 1, 1>>),
                            JointKeyframe(2, <<0, 1, 0>>, <<0, 0, 1>>, <<1, 1, 1>>) >>],
             [joint_name |-> "rigWing",
              frames |-> << JointKeyframe(1, <<1, 0, 0>>, <<0, 0, 0>>, <<1, 1, 1>>) >>] >>] >>

\* the joint's local transform at that time of the clip's k-th animated joint
PoseJoint(js, clip, time, k) ==
    LET joint == JointMapGet(js, clip.keyframes[k].joint_name)
        keyframes == clip.keyframes[k].frames
        iv == find_keyframe_interval(keyframes, time)
        current_kf == IF iv.kf0 = iv.kf1 THEN keyframes[iv.kf0]
                      ELSE interpolate_keyframe(keyframes[iv.kf0], keyframes[iv.kf1], iv.blend)
    IN  IF joint = 0 \/ iv.kf0 = 0 THEN js
        ELSE [js EXCEPT ![joint].local_transform = get_transform_matrix(current_kf)]

RECURSIVE PoseJoints(_, _, _, _)
PoseJoints(js, clip, time, k) ==
    IF k > Len(clip.keyframes) THEN js
    ELSE PoseJoints(PoseJoint(js, clip, time, k), clip, time, k + 1)

\* _update_skeleton_pose that writes the local transforms and skips the walk
_update_skeleton_pose_no_walk(an, js, root) ==
    IF an.current_clip = 0 THEN js
    ELSE PoseJoints(js, Clips[an.current_clip], an.current_time, 1)

\* _update_skeleton_pose that first puts every joint in its rest pose
_update_skeleton_pose_from_rest(an, js, root) ==
    IF an.current_clip = 0 THEN js
    ELSE update_global_transforms(
             PoseJoints(MapTo(LAMBDA i : [js[i] EXCEPT !.local_transform = Identity4], Len(js)),
                        Clips[an.current_clip], an.current_time, 1), root)

\* Animator._update_skeleton_pose: the joints after it
_update_skeleton_pose(an, js, root) ==
    IF an.current_clip = 0 THEN js
    ELSE update_global_transforms(PoseJoints(js, Clips[an.current_clip], an.current_time, 1), root)

Min(a, b) == IF a < b THEN a ELSE b
Max(a, b) == IF a > b THEN a ELSE b

\* Animator.load_clip / play / pause / stop: the animator after the call
load_clip(an, clip) == [an EXCEPT !.current_clip = clip, !.current_time = 0]
play(an) == [an EXCEPT !.is_playing = TRUE]
pause(an) == [an EXCEPT !.is_playing = FALSE]
stop(an) == [an EXCEPT !.is_playing = FALSE, !.current_time = 0]

\* set_time that stores the time as given
set_time_unclamped(an, js, root, time) ==
    LET an1 == [an EXCEPT !.current_time = time]
    IN  [animator |-> an1, joints |-> _update_skeleton_pose(an1, js, root)]

\* Animator.set_time: the animator and the joints after the call
set_time(an, js, root, time) ==
    LET an1 == [an EXCEPT !.current_time =
                   IF an.current_clip # 0
                   THEN Max(0, Min(time, Clips[an.current_clip].duration))
                   ELSE Max(0, time)]
    IN  [animator |-> an1, joints |-> _update_skeleton_pose(an1, js, root)]

\* the time step that holds the time at the clip's end and goes on playing
advance_time_keeps_playing(an, delta_time) ==
    LET duration == Clips[an.current_clip].duration
        t == an.current_time + delta_time
    IN  IF t > duration
        THEN IF an.loop THEN [an EXCEPT !.current_time = t % duration]
             ELSE [an EXCEPT !.current_time = duration]
        ELSE [an EXCEPT !.current_time = t]

\* the time step of Animator.update (animator.py 99-108): the animator after it
advance_time(an, delta_time) ==
    LET duration == Clips[an.current_clip].duration
        t == an.current_time + delta_time
    IN  IF t > duration
        THEN IF an.loop THEN [an EXCEPT !.current_time = t % duration]
             ELSE [an EXCEPT !.current_time = duration, !.is_playing = FALSE]
        ELSE [an EXCEPT !.current_time = t]

\* Animator.update(delta_time): the animator and the joints after the call
animator_update(an, js, root, delta_time) ==
    IF ~an.is_playing \/ an.current_clip = 0 THEN [animator |-> an, joints |-> js]
    ELSE LET an1 == advance_time(an, delta_time)
         IN  [animator |-> an1, joints |-> _update_skeleton_pose(an1, js, root)]

(***************************************************************************)
(* The window.  Qt runs one handler at a time and delivers a signal to its *)
(* slot inside the emit, so a handler and the slots it reaches are one     *)
(* step; paintGL runs between handlers.                                    *)
(***************************************************************************)
\* a skeleton none of whose joints the joint selector lists
HiddenJoints ==
    << Joint("_root", 0, <<0, 0, 0>>, ""),
       Joint("rigLBLegAnkle", 1, <<0, 2, 0>>, "_root") >>

\* a root with one child, both listed by the joint selector
SpineJoints ==
    << Joint("rigRoot", 0, <<0, 0, 0>>, ""),
       Joint("rigSpine1", 1, <<0, 2, 0>>, "rigRoot") >>

UISkeletons == {SpineJoints, HiddenJoints}

\* the mesh and the weight rows the window loads: one vertex, split over the bones
UIMesh == << <<1, 1, 0>> >>

UIWeights(nb) == << [num |-> MapTo(LAMBDA b : 1, nb), den |-> nb] >>

\* slider positions, in quarter turns, and the sliders the user moves
SliderValues == {0, 1}

MovedSliders == {"rz"}

\* ControlPanel.set_skeleton: the names the joint selector lists
main_joints(js) ==
    PositionsWhere([i \in 1..Len(js) |->
                       /\ ~StartsWith(js[i].name, "_")
                       /\ ~Contains(js[i].name, "Ankle")
                       /\ ~Contains(js[i].name, "Eyelid")], Len(js), 1)

\* ControlPanel._on_joint_selected
_on_joint_selected(cp, js, joint_name) ==
    IF joint_name = "" THEN cp
    ELSE [current_joint |-> JointMapGet(js, joint_name),
          slider_rx |-> 0, slider_ry |-> 0, slider_rz |-> 0]

\* MainWindow._on_joint_transform_changed: the joints and the deformer after it
_on_joint_transform_changed(js, d, joint_name, rotation) ==
    LET joint == JointMapGet(js, joint_name)
        js1 == update_global_transforms(
                   [js EXCEPT ![joint].local_transform =
                        from_euler(rotation[1], rotation[3], rotation[2])],
                   root_joint)
    IN  IF ~d.constructed \/ joint = 0 THEN [joints |-> js, deformer |-> d]
        ELSE [joints |-> js1,
              deformer |-> [d EXCEPT !.deformed_vertices = update(d, js1, bones)]]

\* ControlPanel._on_rotation_changed, with the slot its signal reaches
_on_rotation_changed(cp, js, d) ==
    IF cp.current_joint = 0 THEN [joints |-> js, deformer |-> d]
    ELSE _on_joint_transform_changed(js, d, js[cp.current_joint].name,
                                     <<cp.slider_rx, cp.slider_ry, cp.slider_rz>>)

\* slider.setValue(0) inside _reset_pose: a slider that moves fires
\* _on_rotation_changed with the panel as it is at that moment
SliderToZero(moves, cp, scene) ==
    IF moves THEN _on_rotation_changed(cp, scene.joints, scene.deformer) ELSE scene

\* ControlPanel._reset_pose: identity local transforms and a walk, the three sliders
\* set to 0 in turn, and a final emit that is made only with a joint selected
_reset_pose(cp, js, d) ==
    LET cp1 == [cp EXCEPT !.slider_rx = 0]
        cp2 == [cp1 EXCEPT !.slider_ry = 0]
        cp3 == [cp2 EXCEPT !.slider_rz = 0]
        rest == [joints |-> update_global_transforms(
                               MapTo(LAMBDA i : [js[i] EXCEPT !.local_transform = Identity4], Len(js)),
                               root_joint),
                 deformer |-> d]
    IN  CHOOSE r \in
            {[control_panel |-> cp3, joints |-> s4.joints, deformer |-> s4.deformer] :
                s4 \in {IF cp.current_joint # 0
                        THEN _on_joint_transform_changed(s3.joints, s3.deformer,
                                                         js[cp.current_joint].name, <<0, 0, 0>>)
                        ELSE s3 :
                    s3 \in {SliderToZero(cp.slider_rz # 0, cp3, s2) :
                        s2 \in {SliderToZero(cp.slider_ry # 0, cp2, s1) :
                            s1 \in {SliderToZero(cp.slider_rx # 0, cp1, s0) :
                                s0 \in {rest}}}}}} : TRUE

\* the user picks a joint in the selector
OnJointSelected ==
    /\ pc = "window"
    /\ \E k \in 1..Len(main_joints(joints)) :
          control_panel' = _on_joint_selected(control_panel, joints, joints[main_joints(joints)[k]].name)
    /\ UNCHANGED <<pc, skeletonVars, deformVars, weightVars, callVars, animator, timer, screen, clipVars>>

\* the user moves a rotation slider
OnRotationChanged ==
    /\ pc = "window"
    /\ \E slider \in MovedSliders, value \in SliderValues :
          LET cp == CASE slider = "rx" -> [control_panel EXCEPT !.slider_rx = value]
                      [] slider = "ry" -> [control_panel EXCEPT !.slider_ry = value]
                      [] slider = "rz" -> [control_panel EXCEPT !.slider_rz = value]
              s == _on_rotation_changed(cp, joints, deformer)
          IN  /\ cp # control_panel
              /\ control_panel' = cp
              /\ joints' = s.joints
              /\ deformer' = s.deformer
    /\ UNCHANGED <<pc, bones, root_joint, update_runs, weightVars, callVars, animator, timer, screen, clipVars>>

\* the reset button of the control panel
OnResetPose ==
    /\ pc = "window"
    /\ \E s \in {_reset_pose(control_panel, joints, deformer)} :
          /\ control_panel' = s.control_panel
          /\ joints' = s.joints
          /\ deformer' = s.deformer
    /\ UNCHANGED <<pc, bones, root_joint, update_runs, weightVars, callVars, animator, timer, screen, clipVars>>

\* MainWindow._on_animation_selected
OnAnimationSelected ==
    /\ pc = "window"
    /\ \E clip \in 1..Len(Clips) : animator' = load_clip(animator, clip)
    /\ UNCHANGED <<pc, skeletonVars, deformVars, weightVars, callVars, control_panel, timer, screen, clipVars>>

\* MainWindow._on_play
OnPlay ==
    /\ pc = "window"
    /\ animator.current_clip # 0
    /\ animator' = play(animator)
    /\ timer' = TRUE
    /\ UNCHANGED <<pc, skeletonVars, deformVars, weightVars, callVars, control_panel, screen, clipVars>>

\* MainWindow._on_pause
OnPause ==
    /\ pc = "window"
    /\ animator' = pause(animator)
    /\ timer' = FALSE
    /\ UNCHANGED <<pc, skeletonVars, deformVars, weightVars, callVars, control_panel, screen, clipVars>>

\* MainWindow._on_stop
OnStop ==
    /\ pc = "window"
    /\ animator' = stop(animator)
    /\ timer' = FALSE
    /\ LET js == update_global_transforms(
                    MapTo(LAMBDA i : [joints[i] EXCEPT !.local_transform = Identity4], Len(joints)),
                    root_joint)
       IN  /\ joints' = js
           /\ deformer' = IF deformer.constructed
                          THEN [deformer EXCEPT !.deformed_vertices = update(deformer, js, bones)]
                          ELSE deformer
    /\ UNCHANGED <<pc, bones, root_joint, update_runs, weightVars, callVars, control_panel, screen, clipVars>>

\* MainWindow._on_time_seek(ratio), ratio = time / duration
OnTimeSeek ==
    /\ pc = "window"
    /\ animator.current_clip # 0
    /\ \E time \in 0..Clips[animator.current_clip].duration :
          LET s == set_time(animator, joints, root_joint, time)
          IN  /\ animator' = s.animator
              /\ joints' = s.joints
              /\ deformer' = IF deformer.constructed
                             THEN [deformer EXCEPT !.deformed_vertices = update(deformer, s.joints, bones)]
                             ELSE deformer
    /\ UNCHANGED <<pc, bones, root_joint, update_runs, weightVars, callVars, control_panel, timer, screen, clipVars>>

\* MainWindow._on_loop_toggled
OnLoopToggled ==
    /\ pc = "window"
    /\ animator' = [animator EXCEPT !.loop = ~animator.loop]
    /\ UNCHANGED <<pc, skeletonVars, deformVars, weightVars, callVars, control_panel, timer, screen, clipVars>>

\* MainWindow._on_timer: one tick of the running timer
OnTimer ==
    /\ pc = "window"
    /\ timer
    /\ animator.is_playing
    /\ LET s == animator_update(animator, joints, root_joint, 1)
       IN  /\ animator' = s.animator
           /\ joints' = s.joints
           /\ deformer' = IF deformer.constructed
                          THEN [deformer EXCEPT !.deformed_vertices = update(deformer, s.joints, bones)]
                          ELSE deformer
    /\ UNCHANGED <<pc, bones, root_joint, update_runs, weightVars, callVars, control_panel, timer, screen, clipVars>>

\* VideoExporter._render_frames: one pass of the frame loop; the exporter's animator
\* has its clip loaded, plays and loops (video_export.py 83-85)
RenderFrame ==
    /\ pc = "window"
    /\ deformer.constructed
    /\ animator.current_clip # 0 /\ animator.is_playing /\ animator.loop
    /\ LET s == animator_update(animator, joints, root_joint, 1)
           buffer == update(deformer, s.joints, bones)
       IN  /\ animator' = s.animator
           /\ joints' = s.joints
           /\ deformer' = [deformer EXCEPT !.deformed_vertices = buffer]
           /\ screen' = buffer
    /\ UNCHANGED <<pc, bones, root_joint, update_runs, weightVars, callVars, control_panel, timer, clipVars>>

\* GLWidget.paintGL: _draw_mesh reads the deformed buffer
PaintGL ==
    /\ pc = "window"
    /\ screen' = IF deformer.constructed
                 THEN deformer.deformed_vertices
                 ELSE MapTo(LAMBDA v : Point(mesh[v], 1), Len(mesh))
    /\ UNCHANGED <<pc, skeletonVars, deformVars, weightVars, callVars, animator, control_panel, timer, clipVars>>

\* MainWindow._load_default_data: skeleton, deformer with one update(), animator,
\* and the joint selector on its first entry
InitUI ==
    /\ pc = "window"
    /\ \E js0 \in UISkeletons :
          LET js == build_hierarchy(js0)
              bs == build_bones(js)
              d  == SkinDeformer(UIMesh, js, UIWeights(Len(bs)))
              names == main_joints(js)
          IN  /\ joints = js
              /\ bones = bs
              /\ root_joint = FirstParentless(js0)
              /\ deformer = [d EXCEPT !.deformed_vertices = update(d, js, bs)]
              /\ control_panel = _on_joint_selected(NoControlPanel, js,
                                     IF names = <<>> THEN "" ELSE js[names[1]].name)
    /\ update_runs = 0
    /\ mesh = UIMesh
    /\ max_influences = 4
    /\ weights = <<>>
    /\ args = <<>>
    /\ result = <<>>
    /\ animator = NoAnimator
    /\ timer = FALSE
    /\ screen = <<>>
    /\ new_clip = NoClip

NextUI ==
    \/ OnJointSelected
    \/ OnRotationChanged
    \/ OnResetPose
    \/ OnAnimationSelected
    \/ OnPlay
    \/ OnPause
    \/ OnStop
    \/ OnTimeSeek
    \/ OnLoopToggled
    \/ OnTimer
    \/ RenderFrame
    \/ PaintGL

SpecUI == InitUI /\ [][NextUI]_vars

\* the deformed buffer is the skinning of the skeleton's present global transforms
BufferMatchesPose ==
    deformer.constructed => deformer.deformed_vertices = update(deformer, joints, bones)


\* a step of one of the frame drivers: timer tick, seek, export frame, and the manual
\* joint handler, which a slider reaches only with a joint selected
FrameDriver ==
    \/ OnTimer
    \/ OnTimeSeek
    \/ RenderFrame
    \/ OnRotationChanged /\ control_panel.current_joint # 0

\* C14: a frame driver writes the frame's local transforms, then walks the whole tree,
\* and only then lets SkinDeformer.update() read the global transforms: after the frame
\* every joint's global transform is the one a walk derives from the frame's local
\* transforms, and the buffer is the skinning of exactly those global transforms.
C14_PoseBeforeDeform ==
    [][FrameDriver =>
          /\ joints' = update_global_transforms(joints', root_joint')
          /\ deformer'.deformed_vertices = update(deformer', joints', bones')]_vars

\* mid-clip during playback: the animated joint is rotated and the vertex has moved
C14_Witness ==
    /\ pc = "window"
    /\ animator.is_playing
    /\ animator.current_time = 1
    /\ joints[2].local_transform = rotation_x(1)
    /\ BufferMatchesPose
    /\ deformer.deformed_vertices # MapTo(LAMBDA v : Point(UIMesh[v], 1), Len(UIMesh))

\* C15: whenever the window may repaint (between two handlers), the deformed buffer
\* that _draw_mesh reads is the skinning of the skeleton's present global transforms.
C15_RenderedBufferCurrent == pc = "window" => BufferMatchesPose


\* C16: the matrix update() uses for a bone is the present global transform of the
\* bone's end joint times the inverse of that same joint's bind matrix, also when the
\* joints' index fields differ from their positions in the joint list.
C16_SkinningMatrixOfEndJoint ==
    (pc = "ready" /\ deformer.constructed) =>
        \A b \in 1..Len(bones) :
            SkinningMatrix(deformer, _get_current_global_matrices(joints), joints, bones[b])
                = MatMul(joints[bones[b].end_joint].global_transform,
                         Inverse(joints[bones[b].end_joint].bind_matrix))


\* the region tags the head region excludes
ExcludedRegions ==
    {"front_leg_L", "front_leg_R", "back_leg_L", "back_leg_R",
     "ankle_FL", "ankle_FR", "ankle_BL", "ankle_BR", "spine", "tail"}

\* C17: a vertex that the ankle test and the shoulder test pass over and that lies in
\* the head region has zero weight on every bone tagged as a leg, an ankle, spine or tail.
C17_HeadRegionExcludes ==
    Weighted =>
        \A i \in 1..Len(mesh) :
            TierOf(i) = "head_region" =>
                \A b \in 1..Len(bones) :
                    _classify_bones(bones)[b] \in ExcludedRegions => weights[i].num[b] = 0

\* a head-region vertex weighted on head or neck bones only, although an excluded
\* bone is closer to it than one of the bones that carry its weight
C17_Witness ==
    /\ Weighted
    /\ \E i \in 1..Len(mesh) :
          /\ TierOf(i) = "head_region"
          /\ Support(weights[i]) # {}
          /\ \A c \in Support(weights[i]) : _classify_bones(bones)[c] \in {"head", "neck"}
          /\ \E b \in 1..Len(bones), c \in Support(weights[i]) :
                /\ _classify_bones(bones)[b] \in ExcludedRegions
                /\ DistLess(DistTo(i, b), DistTo(i, c))


\* the bones the shoulder tier blends among
ShoulderBones ==
    {b \in 1..Len(bones) : _classify_bones(bones)[b] \in {"spine", "front_leg_L", "front_leg_R", "neck"}}

\* C18 as claimed: a shoulder-tier vertex has non-zero weight only on bones tagged
\* spine, front_leg_L, front_leg_R or neck, in every skeleton with a chest key bone.
C18_ShoulderOnlyShoulderBones ==
    Weighted =>
        \A i \in 1..Len(mesh) :
            TierOf(i) = "shoulder" => Support(weights[i]) \subseteq ShoulderBones

\* C18: a shoulder-tier vertex of a skeleton with a bone tagged spine, front_leg_L,
\* front_leg_R or neck has non-zero weight only on such bones, on at most
\* max_influences of them and on none that is farther than one of them left out; in a
\* skeleton without such a bone its row is 1.0 on bone index 0.
C18_ShoulderContainment ==
    Weighted =>
        \A i \in 1..Len(mesh) :
            TierOf(i) = "shoulder" =>
                IF ShoulderBones # {}
                THEN /\ Support(weights[i]) # {}
                     /\ Support(weights[i]) \subseteq ShoulderBones
                     /\ Cardinality(Support(weights[i])) <= max_influences
                     /\ \A b \in Support(weights[i]), c \in ShoulderBones \ Support(weights[i]) :
                           ~DistLess(DistTo(i, c), DistTo(i, b))
                ELSE OnlyBone(weights[i], 1)

\* a shoulder-tier vertex with more shoulder bones than max_influences, and a bone of
\* another region closer to it than one of the bones that carry its weight
C18_Witness ==
    /\ Weighted
    /\ \E i \in 1..Len(mesh) :
          /\ TierOf(i) = "shoulder"
          /\ Cardinality(ShoulderBones) > max_influences
          /\ Support(weights[i]) \subseteq ShoulderBones
          /\ \E b \in (1..Len(bones)) \ ShoulderBones, c \in Support(weights[i]) :
                DistLess(DistTo(i, b), DistTo(i, c))


\* C19: after build_hierarchy() the root's bind matrix is the translation to its head,
\* a joint's bind matrix is its parent's times the translation by the offset of the
\* heads (hence the translation to the joint's own head), every bind matrix times its
\* stored inverse is the identity, and the first global transform is the bind matrix.
C19_BindMatrices ==
    pc = "hierarchy" =>
        \A j \in 1..Len(joints) :
            LET J == joints[j]
                offset == IF J.parent # 0 THEN VecSub(J.head, joints[J.parent].head) ELSE J.head
            IN  /\ J.parent = 0 => J.bind_matrix = Translation(J.head[1], J.head[2], J.head[3])
                /\ J.parent # 0 =>
                      J.bind_matrix = MatMul(joints[J.parent].bind_matrix,
                                             Translation(offset[1], offset[2], offset[3]))
                /\ J.bind_matrix = Translation(J.head[1], J.head[2], J.head[3])
                /\ MatMul(J.bind_matrix, J.inverse_bind_matrix) = Identity4
                /\ J.global_transform = J.bind_matrix


\* the arguments of a returned point_to_segment_distance call
SegmentCallReturned == pc = "returned" /\ args.op = "point_to_segment_distance"

\* |point - (seg_start + (k / n) (seg_end - seg_start))|^2, as a fraction
DistanceToParam(point, seg_start, seg_end, k, n) ==
    LET ab == VecSub(seg_end, seg_start)
        c  == VecAdd(VecScale(seg_start, n), VecScale(ab, k))
    IN  Dist(Distance2(VecScale(point, n), c), n * n)

\* C20: point_to_segment_distance(p, a, b) is the distance from p to a + t (b - a),
\* t the projection parameter clamped to [0, 1]: the distance to a when a = b or the
\* projection falls before a, the distance to b when it falls beyond b, the
\* perpendicular distance otherwise; no point of the segment is closer.
C20_ClampedProjectionDistance ==
    SegmentCallReturned =>
        LET p  == args.point
            a  == args.seg_start
            b  == args.seg_end
            ab == VecSub(b, a)
            L  == Dot(ab, ab)
            s  == Dot(VecSub(p, a), ab)
            T  == IF s < 0 THEN 0 ELSE IF s > L THEN L ELSE s
        IN  IF L = 0 THEN result.value = Dist(Distance2(p, a), 1)
            ELSE /\ result.value = DistanceToParam(p, a, b, T, L)
                 /\ s <= 0 => result.value = Dist(Distance2(p, a), 1)
                 /\ s >= L => result.value = Dist(Distance2(p, b), 1)
                 /\ (0 < s /\ s < L) =>
                       Dot(VecSub(VecScale(p, L), VecAdd(VecScale(a, L), VecScale(ab, s))), ab) = 0
                 /\ \A k \in 0..L : ~DistLess(DistanceToParam(p, a, b, k, L), result.value)

\* a call whose projection falls beyond seg_end: the distance to seg_end is returned,
\* which is more than the distance to the line
C20_Witness ==
    /\ SegmentCallReturned
    /\ args.seg_start # args.seg_end
    /\ Dot(VecSub(args.point, args.seg_start), VecSub(args.seg_end, args.seg_start))
          > Dot(VecSub(args.seg_end, args.seg_start), VecSub(args.seg_end, args.seg_start))
    /\ result.value = Dist(Distance2(args.point, args.seg_end), 1)
    /\ DistLess(point_to_line_distance(args.point, args.seg_start, args.seg_end), result.value)

(***************************************************************************)
(* Properties of the validation pass.                                      *)
(***************************************************************************)
ValidateCallReturned == pc = "returned" /\ args.op = "_validate_weights"

\* the row's sum deviates from 1.0 by more than 1e-4
Deviates(row) == 10000 * Abs(RowSum(row) - row.den) > row.den

\* the row's sum is above epsilon
SumAboveEpsilon(row) == RowSum(row) > row.den \div epsilon_inverse

\* the two rows hold the same weights
SameRow(r, s) == \A b \in 1..Len(r.num) : r.num[b] * s.den = s.num[b] * r.den

GlobalsFollowLocals ==
    \A j \in 1..Len(joints) :
        UnderRoot(j, Len(joints)) =>
            LET J == joints[j]
                g == J.global_transform
            IN  /\ IF j = root_joint
                   THEN g = MatMul(Translation(J.head[1], J.head[2], J.head[3]),
                                   J.local_transform)
                   ELSE LET P == joints[J.parent]
                            offset == VecSub(J.head, P.head)
                        IN  g = MatMul(P.global_transform,
                                       MatMul(Translation(offset[1], offset[2], offset[3]),
                                              J.local_transform))
                /\ J.current_position = <<g[1][4], g[2][4], g[3][4]>>

\* C22: after a call of update_global_transforms(), whatever the local transforms,
\* the root has global = Translate(root.head) . local, every joint j under the root
\* has global[j] = global[parent(j)] . Translate(head(j) - head(parent(j))) . local[j]
\* with the parent's global transform of the same call, and current_position[j] is
\* the translation part of global[j].  Every operation on the loaded skeleton that
\* sets a local transform ends with the call, so the relation holds in every state
\* of the loaded skeleton.
C22_GlobalTransformFormula == pc = "ready" => GlobalsFollowLocals

\* a walked skeleton whose root and a child listed before the root are both rotated,
\* by different rotations
C22_Witness ==
    /\ pc = "ready"
    /\ root_joint = 2
    /\ joints[1].parent = 2
    /\ joints[2].local_transform \in Rotations
    /\ joints[1].local_transform \in Rotations
    /\ joints[1].local_transform # joints[2].local_transform
    /\ joints[1].current_position # joints[1].head
    /\ GlobalsFollowLocals

(***************************************************************************)
(* Properties of the stand-alone classifier.                               *)
(***************************************************************************)
KeyBonesCallReturned == pc = "returned" /\ args.op = "identify_key_bones"

\* the bones of the call that qualify as head bone: region head, and 'righead' in
\* the bone's name and in its end joint's name
HeadCandidates ==
    {b \in 1..Len(args.bones) :
        /\ args.bone_regions[b] = "head"
        /\ Contains(Lower(args.bones[b].name), "righead")
        /\ Contains(Lower(args.joints[args.bones[b].end_joint].name), "righead")}

\* the bones of the call with 'chest' in their name
ChestCandidates == {b \in 1..Len(args.bones) : Contains(Lower(args.bones[b].name), "chest")}

\* the first of a set of bones, 0 when there is none
FirstOf(S) == IF S = {} THEN 0 ELSE CHOOSE b \in S : \A c \in S : b <= c

\* C23: identify_key_bones records as head bone the first bone of region head whose
\* name and end-joint name both contain 'righead', as chest bone the first bone with
\* 'chest' in its name whatever its region, and exactly one (bone, end-joint
\* position) pair for each ankle region present in the region map; later bones
\* never replace a recorded head or chest bone.
C23_KeyBones ==
    KeyBonesCallReturned =>
        LET kb == result.value
            ankle_regions == {args.bone_regions[b] : b \in 1..Len(args.bones)} \cap AnkleRegions
        IN  /\ kb.head_idx = FirstOf(HeadCandidates)
            /\ kb.chest_idx = FirstOf(ChestCandidates)
            /\ {kb.ankles[k].region : k \in 1..Len(kb.ankles)} = ankle_regions
            /\ Len(kb.ankles) = Cardinality(ankle_regions)
            /\ \A k \in 1..Len(kb.ankles) :
                  /\ kb.ankles[k].bone \in 1..Len(args.bones)
                  /\ args.bone_regions[kb.ankles[k].bone] = kb.ankles[k].region
                  /\ kb.ankles[k].pos =
                        args.joints[args.bones[kb.ankles[k].bone].end_joint].head

\* a call on a skeleton with two head candidates after a head-region bone that is
\* none, two chest candidates of which the first is tagged spine and the second
\* head, and two bones of one ankle region
C23_Witness ==
    /\ KeyBonesCallReturned
    /\ Cardinality(HeadCandidates) = 2
    /\ \E b \in 1..Len(args.bones) :
          b < result.value.head_idx /\ args.bone_regions[b] = "head"
    /\ Cardinality(ChestCandidates) = 2
    /\ result.value.chest_idx \in ChestCandidates
    /\ args.bone_regions[result.value.chest_idx] = "spine"
    /\ result.value.head_idx \in ChestCandidates
    /\ Len(result.value.ankles) = 1
    /\ Cardinality({b \in 1..Len(args.bones) : args.bone_regions[b] = "ankle_BL"}) = 2

(***************************************************************************)
(* Properties of the rotation order.                                       *)
(***************************************************************************)
\* Rz(rz) . Ry(ry) . Rx(rx) for the Euler triple r = (rx, ry, rz)
EulerRotation(r) == MatMul(rotation_z(r[3]), MatMul(rotation_y(r[2]), rotation_x(r[1])))

\* C24: every path from Euler angles (rx, ry, rz) to a local transform gives
\* Rz(rz) . Ry(ry) . Rx(rx): JointKeyframe.get_transform_matrix (no translation, unit
\* scale), Matrix4.from_euler, and the manual joint-rotation handler, which is given
\* the values of the X, Y and Z sliders.
C24_RotationOrderConsistent ==
    [][(OnRotationChanged /\ control_panel.current_joint # 0) =>
          LET r == <<control_panel'.slider_rx, control_panel'.slider_ry, control_panel'.slider_rz>>
          IN  /\ get_transform_matrix(JointKeyframe(0, r, <<0, 0, 0>>, <<1, 1, 1>>))
                    = EulerRotation(r)
              /\ from_euler(r[1], r[2], r[3]) = EulerRotation(r)
              /\ joints'[control_panel'.current_joint].local_transform = EulerRotation(r)]_vars

(***************************************************************************)
(* animation/keyframe.py : AnimationClip.  A script fills a clip with      *)
(* add_keyframe and looks keyframe intervals up in it.                     *)
(***************************************************************************)
\* the most keyframes a script adds to the clip
MaxKeyframes == 3

\* the joints the script animates
ClipJointNames == {"rigSpine1", "rigWing"}

\* the keyframes it adds: two of them at the same time, with different rotations
KeyframeSample ==
    { JointKeyframe(0, <<0, 0, 0>>, <<0, 0, 0>>, <<1, 1, 1>>),
      JointKeyframe(1, <<0, 0, 0>>, <<0, 0, 0>>, <<1, 1, 1>>),
      JointKeyframe(1, <<2, 0, 0>>, <<0, 0, 0>>, <<1, 1, 1>>),
      JointKeyframe(2, <<2, 0, 0>>, <<0, 0, 4>>, <<1, 1, 1>>) }

\* the times an interval is looked up at: before, inside and after the clip
SeekTimes == -1..3

RECURSIVE InsertByTime(_, _)
\* kf put behind every keyframe of the time-sorted list that is not later than it
InsertByTime(sorted, kf) ==
    IF sorted = <<>> THEN <<kf>>
    ELSE IF sorted[Len(sorted)].time <= kf.time THEN Append(sorted, kf)
    ELSE Append(InsertByTime(SubSeq(sorted, 1, Len(sorted) - 1), kf), sorted[Len(sorted)])

RECURSIVE SortByTime(_, _)
\* list.sort(key=lambda kf: kf.time) on the first n keyframes: the sort is stable
SortByTime(keyframes, n) ==
    IF n = 0 THEN <<>> ELSE InsertByTime(SortByTime(keyframes, n - 1), keyframes[n])

\* AnimationClip.add_keyframe: the clip after the call
add_keyframe(c, joint_name, keyframe) ==
    LET known == \E k \in 1..Len(c.keyframes) : c.keyframes[k].joint_name = joint_name
        entries == IF known THEN c.keyframes
                   ELSE Append(c.keyframes, [joint_name |-> joint_name, frames |-> <<>>])
    IN  [c EXCEPT !.keyframes =
            MapTo(LAMBDA k :
                    IF entries[k].joint_name = joint_name
                    THEN [entries[k] EXCEPT !.frames =
                             SortByTime(Append(entries[k].frames, keyframe),
                                        Len(entries[k].frames) + 1)]
                    ELSE entries[k],
                  Len(entries))]

\* AnimationClip.get_keyframes: keyframes.get(joint_name, [])
get_keyframes(c, joint_name) ==
    LET at == {k \in 1..Len(c.keyframes) : c.keyframes[k].joint_name = joint_name}
    IN  IF at = {} THEN <<>> ELSE c.keyframes[CHOOSE k \in at : TRUE].frames

\* the keyframes the clip holds over all joints
KeyframeCount(c) ==
    SumTo(MapTo(LAMBDA k : Len(c.keyframes[k].frames), Len(c.keyframes)), Len(c.keyframes))

\* clip.add_keyframe(joint_name, keyframe)
AddKeyframe ==
    /\ pc \in {"clip", "found"}
    /\ KeyframeCount(new_clip) < MaxKeyframes
    /\ \E joint_name \in ClipJointNames, keyframe \in KeyframeSample :
          new_clip' = add_keyframe(new_clip, joint_name, keyframe)
    /\ pc' = "clip"
    /\ args' = <<>>
    /\ result' = <<>>
    /\ UNCHANGED <<skeletonVars, deformVars, weightVars, uiVars>>

\* kf0, kf1, blend = find_keyframe_interval(clip.get_keyframes(joint_name), time),
\* then interpolate_keyframe(kf0, kf1, blend) unless kf0 is None
CallFindKeyframeInterval ==
    /\ pc \in {"clip", "found"}
    /\ \E joint_name \in ClipJointNames, time \in SeekTimes :
          LET keyframes == get_keyframes(new_clip, joint_name)
              iv == find_keyframe_interval(keyframes, time)
          IN  /\ args' = [op |-> "find_keyframe_interval", keyframes |-> keyframes,
                          time |-> time]
              /\ result' = [value |-> iv,
                            keyframe |-> IF iv.kf0 = 0 THEN <<>>
                                         ELSE interpolate_keyframe(keyframes[iv.kf0],
                                                                   keyframes[iv.kf1], iv.blend)]
    /\ pc' = "found"
    /\ UNCHANGED <<skeletonVars, deformVars, weightVars, uiVars, clipVars>>

\* clip = AnimationClip("walk", duration=2.0)
InitClip ==
    /\ pc = "clip"
    /\ joints = <<>>
    /\ bones = <<>>
    /\ root_joint = 0
    /\ deformer = NoDeformer
    /\ update_runs = 0
    /\ mesh = <<>>
    /\ max_influences = 1
    /\ weights = <<>>
    /\ args = <<>>
    /\ result = <<>>
    /\ animator = NoAnimator
    /\ control_panel = NoControlPanel
    /\ timer = FALSE
    /\ screen = <<>>
    /\ new_clip = AnimationClip("walk", 2)

NextClip ==
    \/ AddKeyframe
    \/ CallFindKeyframeInterval

SpecClip == InitClip /\ [][NextClip]_vars

(***************************************************************************)
(* Properties of the clip and the interval lookup.                         *)
(***************************************************************************)
\* C25: after any sequence of add_keyframe calls each joint's keyframe list is sorted
\* by time, and a keyframe added at the time of an existing keyframe of that joint
\* replaces it, so that a list holds at most one keyframe per time point.
C25_SortedOnePerTime ==
    \A k \in 1..Len(new_clip.keyframes) :
        LET frames == new_clip.keyframes[k].frames
        IN  /\ \A i \in 1..(Len(frames) - 1) : frames[i].time <= frames[i + 1].time
            /\ \A i, j \in 1..Len(frames) : i # j => frames[i].time # frames[j].time

FindCallReturned == pc = "found"

\* C26: on a non-empty time-sorted list find_keyframe_interval returns a blend in
\* [0, 1]; both keyframes are the first one with blend 0 when t <= first.time, both
\* are the last one with blend 0 when t >= last.time, and otherwise they are adjacent
\* with kf0.time <= t <= kf1.time and blend = (t - kf0.time) / (kf1.time - kf0.time),
\* 0 when the two times coincide; interpolate_keyframe then returns kf0's values at
\* blend 0 and a keyframe of time t in between; on an empty list the result is
\* (None, None, 0).
C26_KeyframeInterval ==
    FindCallReturned =>
        LET keyframes == args.keyframes
            t  == args.time
            n  == Len(keyframes)
            iv == result.value
        IN  IF n = 0 THEN iv.kf0 = 0 /\ iv.kf1 = 0 /\ iv.blend.num = 0
            ELSE /\ iv.blend.den > 0 /\ 0 <= iv.blend.num /\ iv.blend.num <= iv.blend.den
                 /\ t <= keyframes[1].time =>
                       /\ keyframes[iv.kf0] = keyframes[1]
                       /\ keyframes[iv.kf1] = keyframes[1]
                       /\ iv.blend.num = 0
                 /\ t >= keyframes[n].time =>
                       /\ keyframes[iv.kf0] = keyframes[n]
                       /\ keyframes[iv.kf1] = keyframes[n]
                       /\ iv.blend.num = 0
                 /\ (keyframes[1].time < t /\ t < keyframes[n].time) =>
                       LET t0 == keyframes[iv.kf0].time
                           t1 == keyframes[iv.kf1].time
                       IN  /\ iv.kf1 = iv.kf0 + 1
                           /\ t0 <= t /\ t <= t1
                           /\ IF t1 = t0 THEN iv.blend.num = 0
                              ELSE iv.blend.num * (t1 - t0) = (t - t0) * iv.blend.den
                           /\ result.keyframe.time = t
                 /\ iv.blend.num = 0 =>
                       /\ result.keyframe.rotation = keyframes[iv.kf0].rotation
                       /\ result.keyframe.translation = keyframes[iv.kf0].translation
                       /\ result.keyframe.scale = keyframes[iv.kf0].scale


(***************************************************************************)
(* animation/animator.py : the Animator driven through its own methods, as *)
(* the animation tests drive it, on a skeleton whose joints can also be    *)
(* posed by hand.                                                          *)
(***************************************************************************)
\* the largest delta_time, in ticks, update() is called with
MaxDelta == 3

\* the skeletons the animator is built on: the clip animates 'rigSpine1' of the
\* first and 'rigLBLegAnkle' of the second, and no other joint of either
AnimatorSkeletons == {ChainJoints, HiddenJoints}

\* the joints the animator's clip animates (none without a clip)
AnimatedJoints(an, js) ==
    IF an.current_clip = 0 THEN {}
    ELSE {j \in 1..Len(js) :
             \E k \in 1..Len(Clips[an.current_clip].keyframes) :
                 /\ Clips[an.current_clip].keyframes[k].joint_name = js[j].name
                 /\ Clips[an.current_clip].keyframes[k].frames # <<>>}

\* animator.load_clip(clip)
LoadClip ==
    /\ pc = "animator"
    /\ \E clip \in 1..Len(Clips) : animator' = load_clip(animator, clip)
    /\ UNCHANGED <<pc, skeletonVars, deformVars, weightVars, callVars, control_panel, timer, screen, clipVars>>

\* animator.play()
Play ==
    /\ pc = "animator"
    /\ animator' = play(animator)
    /\ UNCHANGED <<pc, skeletonVars, deformVars, weightVars, callVars, control_panel, timer, screen, clipVars>>

\* animator.pause()
Pause ==
    /\ pc = "animator"
    /\ animator' = pause(animator)
    /\ UNCHANGED <<pc, skeletonVars, deformVars, weightVars, callVars, control_panel, timer, screen, clipVars>>

\* animator.stop()
Stop ==
    /\ pc = "animator"
    /\ animator' = stop(animator)
    /\ UNCHANGED <<pc, skeletonVars, deformVars, weightVars, callVars, control_panel, timer, screen, clipVars>>

\* animator.set_time(time)
SetTime ==
    /\ pc = "animator"
    /\ \E time \in SeekTimes :
          \E r \in {set_time(animator, joints, root_joint, time)} :
              /\ animator' = r.animator
              /\ joints' = r.joints
    /\ UNCHANGED <<pc, bones, root_joint, deformVars, weightVars, callVars, control_panel, timer, screen, clipVars>>

\* animator.loop = not animator.loop
ToggleLoop ==
    /\ pc = "animator"
    /\ animator' = [animator EXCEPT !.loop = ~animator.loop]
    /\ UNCHANGED <<pc, skeletonVars, deformVars, weightVars, callVars, control_panel, timer, screen, clipVars>>

\* animator.update(delta_time)
UpdateBy(delta_time) ==
    /\ pc = "animator"
    /\ \E r \in {animator_update(animator, joints, root_joint, delta_time)} :
          /\ animator' = r.animator
          /\ joints' = r.joints
    /\ UNCHANGED <<pc, bones, root_joint, deformVars, weightVars, callVars, control_panel, timer, screen, clipVars>>

\* animator.update(delta_time) with any delta_time >= 0
Update == \E delta_time \in 0..MaxDelta : UpdateBy(delta_time)

\* a frame of a running playback: the frame timer calls animator.update(delta_time),
\* delta_time > 0, while the animator plays
UpdateTick ==
    /\ pc = "animator"
    /\ animator.is_playing
    /\ \E delta_time \in 1..MaxDelta : UpdateBy(delta_time)

\* joint.local_transform = Matrix4.from_euler(...); skeleton.update_global_transforms()
PoseByHand ==
    /\ pc = "animator"
    /\ \E j \in 1..Len(joints), e \in PoseAngles :
          joints' = update_global_transforms(
                        [joints EXCEPT ![j].local_transform = from_euler(e[1], e[2], e[3])],
                        root_joint)
    /\ UNCHANGED <<pc, bones, root_joint, deformVars, weightVars, callVars, uiVars, clipVars>>

\* skeleton = load_skeleton(...); animator = Animator(skeleton)
InitAnimator ==
    /\ pc = "animator"
    /\ \E js0 \in AnimatorSkeletons :
          LET js == build_hierarchy(js0)
          IN  /\ joints = js
              /\ bones = build_bones(js)
              /\ root_joint = FirstParentless(js0)
    /\ deformer = NoDeformer
    /\ update_runs = 0
    /\ mesh = <<>>
    /\ max_influences = 1
    /\ weights = <<>>
    /\ args = <<>>
    /\ result = <<>>
    /\ animator = NoAnimator
    /\ control_panel = NoControlPanel
    /\ timer = FALSE
    /\ screen = <<>>
    /\ new_clip = NoClip

NextAnimator ==
    \/ LoadClip
    \/ Play
    \/ Pause
    \/ Stop
    \/ SetTime
    \/ ToggleLoop
    \/ Update
    \/ PoseByHand

SpecAnimator == InitAnimator /\ [][NextAnimator]_vars

\* a playback that is under way with loop disabled
PlayingNoLoop ==
    pc = "animator" /\ animator.current_clip # 0 /\ animator.is_playing /\ ~animator.loop

\* the playback stopped at the clip's end
StoppedAtEnd ==
    /\ pc = "animator" /\ animator.current_clip # 0
    /\ ~animator.is_playing
    /\ animator.current_time = Clips[animator.current_clip].duration

\* A playback left to run: while a clip plays with loop disabled the only calls
\* are the frame updates, which the frame timer keeps making; at any other
\* moment every method may be called.
NextPlayback ==
    \/ UpdateTick
    \/ ~PlayingNoLoop /\ NextAnimator

\* what a frame of a running playback does to the animator
TickTime ==
    /\ pc = "animator"
    /\ animator.is_playing /\ animator.current_clip # 0
    /\ \E delta_time \in 1..MaxDelta : animator' = advance_time(animator, delta_time)

\* The frame timer keeps calling update() while the animator plays, so the time
\* step of update is taken again and again.
SpecPlayback == InitAnimator /\ [][NextPlayback]_vars /\ WF_animator(TickTime)

(***************************************************************************)
(* Properties of the Animator.                                             *)
(***************************************************************************)
\* with a clip loaded the time lies within the clip
TimeInClip ==
    (pc = "animator" /\ animator.current_clip # 0) =>
        /\ 0 <= animator.current_time
        /\ animator.current_time <= Clips[animator.current_clip].duration

\* C27: with a clip of duration D > 0 loaded, after any sequence of load_clip, play,
\* pause, stop, set_time (any value), loop toggles and update(dt >= 0) the time
\* satisfies 0 <= current_time <= D, and with loop enabled an update that passes D
\* wraps the time to (time mod D) and leaves is_playing true.
C27_PlaybackTime ==
    /\ []TimeInClip
    /\ [][\A delta_time \in 0..MaxDelta :
            ( /\ UpdateBy(delta_time)
              /\ animator.current_clip # 0 /\ animator.is_playing /\ animator.loop
              /\ animator.current_time + delta_time > Clips[animator.current_clip].duration )
            => /\ animator'.current_time =
                      (animator.current_time + delta_time) % Clips[animator.current_clip].duration
               /\ animator'.is_playing]_vars

\* a looping playback stands wrapped behind the start, a seek was clamped at the end
C27_Witness ==
    /\ pc = "animator" /\ animator.current_clip # 0
    /\ animator.is_playing /\ animator.loop
    /\ animator.current_time = 1
    /\ joints[2].local_transform = get_transform_matrix(Clips[1].keyframes[1].frames[2])


\* C28: with loop disabled, a clip of duration D > 0 loaded and is_playing true,
\* repeated update(dt) calls with dt > 0 eventually reach is_playing false and
\* current_time = D; from then on an update() call leaves the time, the playing flag
\* and every joint transform unchanged, and after a play() without a reset the next
\* update stops the playback at D again.
C28_PlaybackTerminates ==
    /\ PlayingNoLoop ~> StoppedAtEnd
    /\ [][(StoppedAtEnd /\ Update) => (animator' = animator /\ joints' = joints)]_vars
    /\ [][( /\ PlayingNoLoop
            /\ animator.current_time = Clips[animator.current_clip].duration
            /\ UpdateTick ) => StoppedAtEnd']_vars

\* a playback without loop ended: stopped at the clip's end, in the pose of the
\* last keyframe
C28_Witness ==
    /\ StoppedAtEnd
    /\ ~animator.loop
    /\ \E j \in AnimatedJoints(animator, joints) :
          \E k \in 1..Len(Clips[animator.current_clip].keyframes) :
              LET entry == Clips[animator.current_clip].keyframes[k]
              IN  /\ entry.joint_name = joints[j].name
                  /\ joints[j].local_transform =
                         get_transform_matrix(entry.frames[Len(entry.frames)])
                  /\ joints[j].local_transform # Identity4


\* C29: play(), pause(), stop() and load_clip() leave every joint's local and global
\* transform unchanged (stop() and load_clip() put current_time to 0 without posing
\* the skeleton); update(dt) changes neither time, playing flag nor skeleton when the
\* animator is not playing or has no clip; and a joint the current clip does not
\* animate keeps the local transform it had through set_time() and update().
C29_FrameEffects ==
    /\ [][(LoadClip \/ Play \/ Pause \/ Stop) => joints' = joints]_vars
    /\ [][(LoadClip \/ Stop) => animator'.current_time = 0]_vars
    /\ [][(Update /\ (~animator.is_playing \/ animator.current_clip = 0))
            => (animator' = animator /\ joints' = joints)]_vars
    /\ [][(Update \/ SetTime) =>
            \A j \in (1..Len(joints)) \ AnimatedJoints(animator, joints) :
                joints'[j].local_transform = joints[j].local_transform]_vars

\* a stopped animator: the time is back at 0 while the animated joint still stands in
\* the pose of the clip's end and a joint the clip does not animate in a hand-set pose
C29_Witness ==
    /\ pc = "animator" /\ animator.current_clip # 0
    /\ ~animator.is_playing /\ animator.current_time = 0
    /\ Len(joints) = 3
    /\ joints[2].local_transform = get_transform_matrix(Clips[1].keyframes[1].frames[3])
    /\ joints[3].local_transform \in Rotations
    /\ joints[3].local_transform # joints[2].local_transform


(***************************************************************************)
(* The classifier class against the weight calculator's own copy.          *)
(***************************************************************************)
\* C30: BoneClassifier.classify_bones and _classify_bones return the same region map
\* for every skeleton, identify_key_bones and _get_key_bones the same key bones, and
\* get_allowed_bones and _get_allowed_bones the same list for every region, region
\* map and fallback bone.
C30_ClassifiersAgree ==
    pc = "returned" =>
        /\ args.op = "classify_bones" => result.value = _classify_bones(args.bones)
        /\ args.op = "identify_key_bones" =>
              /\ args.bone_regions = _classify_bones(args.bones)
              /\ result.value = _get_key_bones(args.joints, args.bones, args.bone_regions)
        /\ args.op = "get_allowed_bones" =>
              result.value = get_allowed_bones(args.region, args.bone_regions, args.nearest)

\* both copies sort a skeleton's bones into ankle, head and spine regions alike
C30_Witness ==
    /\ pc = "returned"
    /\ args.op = "classify_bones"
    /\ {"ankle_BL", "head", "spine"} \subseteq Range(result.value)
    /\ result.value = _classify_bones(args.bones)

====
